---- MODULE Spec2Model ----
(***************************************************************************)
(* A model of the LAMDA document parser of src/src/lamda.rs:               *)
(* ElementData::from_str, the field and record parsers it calls, and the   *)
(* ParseError values it returns.                                           *)
(*                                                                         *)
(* A text is a sequence of lines as str::lines() yields them; a line is a  *)
(* sequence of one-character strings.  The cursor of from_str only moves   *)
(* forward, so the text is revealed one line at a time: `input` is the     *)
(* part of the text read so far and `eof` says that the text ended there.  *)
(***************************************************************************)
EXTENDS Integers, Sequences, FiniteSets, TLC

\* ------------------------------------------------------------------------
\* Bounds of the explored texts
\* ------------------------------------------------------------------------

\* largest count a generated document declares for levels, transitions and
\* a partner's collisional transitions
MaxCount == 1

\* largest number of collision-partner blocks a generated document declares
MaxPart == 2

\* largest number of lines a generated document has after its last block
MaxTrail == 1

\* the largest column and the largest value_width of the UnknownItem errors rendered
MaxColumn == 2

MaxWidth == 2

\* ------------------------------------------------------------------------
\* Characters and strings (str methods of the Rust standard library)
\* ------------------------------------------------------------------------

Digits == <<"0", "1", "2", "3", "4", "5", "6", "7", "8", "9">>

IsDigit(c) == \E i \in 1..10 : Digits[i] = c

DigitVal(c) == (CHOOSE i \in 1..10 : Digits[i] = c) - 1

\* char::is_whitespace, on the characters of the modelled texts
IsWhitespace(c) == c \in {" ", "\t"}

\* char::is_alphanumeric, on the characters of the modelled texts
IsAlphanumeric(c) == IsDigit(c) \/ c \in {"a", "c", "e", "f", "i", "n", "q", "x", "z", "E", "H", "O"}

\* char::to_ascii_lowercase, on the characters of the modelled texts
Lower(c) == IF c = "E" THEN "e" ELSE IF c = "H" THEN "h" ELSE IF c = "O" THEN "o" ELSE c

SubStr(s, from, to) == [i \in 1..(to - from + 1) |-> s[from + i - 1]]

\* the positions of s whose character is not in the set `drop`
Kept(s, drop) == {i \in 1..Len(s) : s[i] \notin drop}

Min(S) == CHOOSE x \in S : \A y \in S : x <= y

Max(S) == CHOOSE x \in S : \A y \in S : x >= y

\* str::trim_matches(|c| c in drop)
TrimMatches(s, drop) ==
    IF Kept(s, drop) = {} THEN <<>>
    ELSE SubStr(s, Min(Kept(s, drop)), Max(Kept(s, drop)))

\* str::trim
Trim(s) == TrimMatches(s, {" ", "\t"})

\* str::starts_with(p) for a one-character pattern
StartsWith(s, c) == Len(s) >= 1 /\ s[1] = c

\* str::is_empty
IsEmpty(s) == Len(s) = 0

\* str::split_whitespace, collected
RECURSIVE SplitWhitespace(_)
SplitWhitespace(s) ==
    LET t == {i \in 1..Len(s) : ~IsWhitespace(s[i])} IN
    IF t = {} THEN <<>>
    ELSE LET b == Min(t)
             ends == {i \in b..Len(s) : IsWhitespace(s[i])}
             e == IF ends = {} THEN Len(s) + 1 ELSE Min(ends)
         IN <<SubStr(s, b, e - 1)>> \o SplitWhitespace(SubStr(s, e, Len(s)))

\* str::split_once(' '): the parts before and after the first space character
SplitOnce(s) ==
    LET sp == {i \in 1..Len(s) : s[i] = " "} IN
    IF sp = {} THEN [found |-> FALSE, left |-> <<>>, right |-> <<>>]
    ELSE [found |-> TRUE, left |-> SubStr(s, 1, Min(sp) - 1),
          right |-> SubStr(s, Min(sp) + 1, Len(s))]

\* a find that counts the offset from 1
FindOneBased(s, pat) ==
    LET at == {i \in 1..(Len(s) - Len(pat) + 1) : SubStr(s, i, i + Len(pat) - 1) = pat} IN
    IF at = {} THEN -1 ELSE Min(at)

\* str::find(pat): the 0-based offset of the first occurrence of pat, or -1 for None
Find(s, pat) ==
    LET at == {i \in 0..(Len(s) - Len(pat)) : SubStr(s, i + 1, i + Len(pat)) = pat} IN
    IF at = {} THEN -1 ELSE Min(at)

\* str::find(char::is_alphanumeric), 0-based, or -1 for None
FindAlphanumeric(s) ==
    LET at == {i \in 1..Len(s) : IsAlphanumeric(s[i])} IN
    IF at = {} THEN -1 ELSE Min(at) - 1

AllDigits(s) == \A i \in 1..Len(s) : IsDigit(s[i])

\* the number a short string of decimal digits writes
RECURSIVE DecVal(_)
DecVal(s) == IF Len(s) = 0 THEN 0 ELSE 10 * DecVal(SubStr(s, 1, Len(s) - 1)) + DigitVal(s[Len(s)])

\* A u32 is kept as two 16-bit limbs, [hi, lo] standing for hi * 65536 + lo, so
\* that every value up to u32::MAX = [hi |-> 65535, lo |-> 65535] has a value.
Limb == 256 * 256

ToU32(n) == [hi |-> n \div Limb, lo |-> n % Limb]

U32Max == [hi |-> Limb - 1, lo |-> Limb - 1]

U32Lt(a, b) == a.hi < b.hi \/ (a.hi = b.hi /\ a.lo < b.lo)

\* u32 + 1 in a release build (wrapping); a debug build panics when a = u32::MAX
WrappingInc(a) ==
    IF a.lo + 1 < Limb THEN [hi |-> a.hi, lo |-> a.lo + 1]
    ELSE IF a.hi + 1 < Limb THEN [hi |-> a.hi + 1, lo |-> 0]
    ELSE [hi |-> 0, lo |-> 0]

\* the digits s[i..] folded into acc as u32::from_str does (checked_mul, checked_add)
RECURSIVE U32Digits(_, _, _)
U32Digits(s, i, acc) ==
    IF i > Len(s) \/ ~acc.ok THEN acc
    ELSE LET lo == acc.lo * 10 + DigitVal(s[i])
             hi == acc.hi * 10 + (lo \div Limb)
         IN U32Digits(s, i + 1, [ok |-> hi < Limb, hi |-> hi % Limb, lo |-> lo % Limb])

\* str::parse::<u32>: an optional `+`, then one or more digits, no overflow
U32Checked(d, r) ==
    IF Len(d) >= 1 /\ AllDigits(d) /\ r.ok
    THEN [ok |-> TRUE, val |-> [hi |-> r.hi, lo |-> r.lo]]
    ELSE [ok |-> FALSE, val |-> ToU32(0)]

U32Unsigned(d) == U32Checked(d, IF AllDigits(d) THEN U32Digits(d, 1, [ok |-> TRUE, hi |-> 0, lo |-> 0])
                                ELSE [ok |-> FALSE, hi |-> 0, lo |-> 0])

ParseU32(s) == U32Unsigned(IF Len(s) >= 2 /\ s[1] = "+" THEN Tail(s) ELSE s)

LowerStr(s) == [i \in 1..Len(s) |-> Lower(s[i])]

\* s without the characters c at its left end
RECURSIVE StripLeft(_, _)
StripLeft(s, c) == IF Len(s) >= 1 /\ s[1] = c THEN StripLeft(Tail(s), c) ELSE s

\* s without the characters c at its right end
RECURSIVE StripRight(_, _)
StripRight(s, c) ==
    IF Len(s) >= 1 /\ s[Len(s)] = c THEN StripRight(SubStr(s, 1, Len(s) - 1), c) ELSE s

\* A float value is the decimal it was written as, in a normal form: sign,
\* significant digits without leading or trailing zeros, power of ten of the
\* last digit. Zero is [neg |-> FALSE, digits |-> <<>>, exp |-> 0] (-0.0 == 0.0).
\* Rounding to 53 bits is not modelled.
FloatNormal(neg, lead, sig, e) ==
    IF sig = <<>> THEN [kind |-> "num", neg |-> FALSE, digits |-> <<>>, exp |-> 0]
    ELSE [kind |-> "num", neg |-> neg, digits |-> sig, exp |-> e + Len(lead) - Len(sig)]

FloatVal(neg, ds, e) == FloatNormal(neg, StripLeft(ds, "0"), StripRight(StripLeft(ds, "0"), "0"), e)

NotAFloat == [ok |-> FALSE, val |-> [kind |-> "none"]]

\* the value of mantissa digits ipart.fpart with exponent digits esig of sign
\* eneg. An exponent of more than four digits saturates to infinity or to
\* zero, as f64 does.
F64Value(neg, ipart, fpart, eneg, esig) ==
    IF Len(esig) > 4 /\ ~eneg /\ StripLeft(ipart \o fpart, "0") # <<>>
    THEN [ok |-> TRUE, val |-> [kind |-> "inf", neg |-> neg]]
    ELSE IF Len(esig) > 4 THEN [ok |-> TRUE, val |-> FloatVal(neg, <<>>, 0)]
    ELSE [ok |-> TRUE,
          val |-> FloatVal(neg, ipart \o fpart,
                           (IF eneg THEN 0 - DecVal(esig) ELSE DecVal(esig)) - Len(fpart))]

\* Number ::= (Digit+ | Digit+ '.' Digit* | Digit* '.' Digit+) Exp?, the
\* mantissa split at its first '.', edigits the digits of Exp
F64Number(neg, ipart, fpart, hasexp, eneg, edigits) ==
    IF /\ AllDigits(ipart) /\ AllDigits(fpart) /\ Len(ipart) + Len(fpart) >= 1
       /\ (hasexp => Len(edigits) >= 1 /\ AllDigits(edigits))
    THEN F64Value(neg, ipart, fpart, eneg, StripLeft(edigits, "0"))
    ELSE NotAFloat

\* the mantissa mpart and the text epart after the 'e'
F64Mantissa(neg, mpart, dots, hasexp, epart) ==
    F64Number(neg,
              IF dots = {} THEN mpart ELSE SubStr(mpart, 1, Min(dots) - 1),
              IF dots = {} THEN <<>> ELSE SubStr(mpart, Min(dots) + 1, Len(mpart)),
              hasexp,
              Len(epart) >= 1 /\ epart[1] = "-",
              IF Len(epart) >= 1 /\ epart[1] \in {"+", "-"} THEN Tail(epart) ELSE epart)

F64Split(neg, mpart, hasexp, epart) ==
    F64Mantissa(neg, mpart, {i \in 1..Len(mpart) : mpart[i] = "."}, hasexp, epart)

\* the text after the sign, in lower case; es the positions of 'e' in it
F64Body(neg, body, es) ==
    IF body = <<"n", "a", "n">> THEN [ok |-> TRUE, val |-> [kind |-> "nan"]]
    ELSE IF body \in {<<"i", "n", "f">>, <<"i", "n", "f", "i", "n", "i", "t", "y">>}
    THEN [ok |-> TRUE, val |-> [kind |-> "inf", neg |-> neg]]
    ELSE IF es = {} THEN F64Split(neg, body, FALSE, <<>>)
    ELSE F64Split(neg, SubStr(body, 1, Min(es) - 1), TRUE, SubStr(body, Min(es) + 1, Len(body)))

F64Unsigned(neg, body) == F64Body(neg, body, {i \in 1..Len(body) : body[i] = "e"})

\* str::parse::<f64>: Sign? ('inf' | 'infinity' | 'nan' | Number), letters in
\* either case
ParseF64(s) ==
    IF Len(s) >= 1 /\ s[1] \in {"+", "-"}
    THEN F64Unsigned(s[1] = "-", LowerStr(Tail(s)))
    ELSE F64Unsigned(FALSE, LowerStr(s))

\* ------------------------------------------------------------------------
\* Field parsers
\* ------------------------------------------------------------------------

\* the characters trimmed from comments and trailing information
InfoTrim == {" ", "!", "\n"}

\* a tail trim that keeps the quotes
TailTrimNoQuote == {" ", "!", "\n"}

\* the characters trimmed from the free-text tail of a record
TailTrim == {" ", "!", "'", "\n"}

\* Comment::from_str (never fails)
Comment_from_str(s) == TrimMatches(s, InfoTrim)

\* ElementName::from_str (never fails)
ElementName_from_str(s) ==
    LET sp == SplitOnce(Trim(s))
        data_str == IF sp.found THEN sp.left ELSE s
        comment_str == IF sp.found THEN sp.right ELSE <<>>
    IN [name |-> data_str, information |-> TrimMatches(comment_str, InfoTrim)]

\* ElementWeight::from_str, and the weight line of ElementData::from_str
ElementWeight_from_str(s) == ParseF64(Trim(s))

NumberOfEnergyLevels_from_str(s) == ParseU32(Trim(s))

NumberOfRadiativeTransitions_from_str(s) == ParseU32(Trim(s))

NumberOfCollisionPartners_from_str(s) == ParseU32(Trim(s))

\* a count parser that reads a blank line as 0
NumberOfCollisionalTransitions_from_str_or_zero(s) ==
    IF Trim(s) = <<>> THEN [ok |-> TRUE, val |-> ToU32(0)] ELSE ParseU32(Trim(s))

NumberOfCollisionalTransitions_from_str(s) == ParseU32(Trim(s))

NumberOfCollisionalTemperatures_from_str(s) == ParseU32(Trim(s))

\* enum CollisionPartnerId, by discriminant 1..7
CollisionPartnerId == <<"H2", "pH2", "oH2", "electrons", "HI", "He", "HII">>

\* try_from with a last match arm that takes every code from 7 to 9
CollisionPartnerId_try_from_upto9(item) ==
    IF item.hi = 0 /\ item.lo \in 1..9
    THEN [ok |-> TRUE, val |-> CollisionPartnerId[IF item.lo > 7 THEN 7 ELSE item.lo]]
    ELSE [ok |-> FALSE, val |-> "none"]

\* CollisionPartnerId::try_from(u32)
CollisionPartnerId_try_from(item) ==
    IF item.hi = 0 /\ item.lo \in 1..Len(CollisionPartnerId)
    THEN [ok |-> TRUE, val |-> CollisionPartnerId[item.lo]]
    ELSE [ok |-> FALSE, val |-> "none"]

\* CollisionPartnerName::from_str
CollisionPartnerName_from_str(s) ==
    LET sp == SplitOnce(Trim(s))
        data_str == IF sp.found THEN sp.left ELSE s
        comment_str == IF sp.found THEN sp.right ELSE <<>>
        n == ParseU32(data_str)
        id == CollisionPartnerId_try_from(n.val)
    IN
    IF n.ok /\ id.ok
    THEN [ok |-> TRUE, name |-> id.val, information |-> TrimMatches(comment_str, InfoTrim)]
    ELSE [ok |-> FALSE, name |-> "none", information |-> <<>>]

\* the float values of the tokens ts[i..], or the first token that is no float
RECURSIVE ParseFloats(_, _, _)
ParseFloats(ts, i, acc) ==
    IF i > Len(ts) THEN [ok |-> TRUE, val |-> acc, value |-> <<>>]
    ELSE IF ParseF64(ts[i]).ok THEN ParseFloats(ts, i + 1, Append(acc, ParseF64(ts[i]).val))
    ELSE [ok |-> FALSE, val |-> <<>>, value |-> ts[i]]

\* a temperatures parser that looks at the last token only
CollisionalTemperatures_from_str_last(s) ==
    ParseFloats(SplitWhitespace(s), Len(SplitWhitespace(s)), <<>>)

\* CollisionalTemperatures::from_str
CollisionalTemperatures_from_str(s) == ParseFloats(SplitWhitespace(s), 1, <<>>)

\* ------------------------------------------------------------------------
\* Composite record parsers
\* ------------------------------------------------------------------------

\* Display of ExpectedFieldValue
ExpectedFieldValue_fmt(e) == IF e = "Integer" THEN "integer" ELSE "floating point number"

\* SplittedFieldParseError::MissingField
MissingField(field, expected) ==
    [ok |-> FALSE, err |-> [kind |-> "MissingField", field |-> field, expected |-> expected]]

\* SplittedFieldParseError::UnknownFormat
UnknownFormat(field, value, expected) ==
    [ok |-> FALSE,
     err |-> [kind |-> "UnknownFormat", field |-> field, value |-> value, expected |-> expected]]

\* values.map(|e| e.to_owned() + " ").collect::<String>() over the tokens ts[i..]
RECURSIVE JoinFrom(_, _)
JoinFrom(ts, i) == IF i > Len(ts) THEN <<>> ELSE ts[i] \o <<" ">> \o JoinFrom(ts, i + 1)

\* enum EnergyLevelField as usize
EnergyLevelField_ord(f) == CASE f = "Level" -> 0 [] f = "Energy" -> 1 [] f = "StatisticalWeight" -> 2

\* Display of EnergyLevelField with the names of the two float fields exchanged
EnergyLevelField_fmt_swapped(f) ==
    CASE f = "Level" -> "level"
      [] f = "Energy" -> "statistical weight"
      [] f = "StatisticalWeight" -> "energy [cm-1]"

\* Display of EnergyLevelField
EnergyLevelField_fmt(f) ==
    CASE f = "Level" -> "level"
      [] f = "Energy" -> "energy [cm-1]"
      [] f = "StatisticalWeight" -> "statistical weight"

\* EnergyLevel::from_str
EnergyLevel_from_str(s) ==
    LET values == SplitWhitespace(s)
        nth(f) == values[EnergyLevelField_ord(f) + 1]
    IN
    IF Len(values) < 1 THEN MissingField("Level", "Integer")
    ELSE IF ~ParseU32(values[1]).ok THEN UnknownFormat("Level", nth("Level"), "Integer")
    ELSE IF Len(values) < 2 THEN MissingField("Energy", "Float")
    ELSE IF ~ParseF64(values[2]).ok THEN UnknownFormat("Energy", nth("Energy"), "Float")
    ELSE IF Len(values) < 3 THEN MissingField("StatisticalWeight", "Float")
    ELSE IF ~ParseF64(values[3]).ok
    THEN UnknownFormat("StatisticalWeight", nth("StatisticalWeight"), "Float")
    ELSE [ok |-> TRUE,
          val |-> [level |-> ParseU32(values[1]).val,
                   energy |-> ParseF64(values[2]).val,
                   stat_weight |-> ParseF64(values[3]).val,
                   qnums |-> TrimMatches(JoinFrom(values, 4), TailTrim)]]

\* enum RadiativeTransitionField as usize
RadiativeTransitionField_ord(f) ==
    CASE f = "Transition" -> 0 [] f = "UpperLevel" -> 1 [] f = "LowerLevel" -> 2
      [] f = "SpontaneousDecayRate" -> 3

\* Display of RadiativeTransitionField
RadiativeTransitionField_fmt(f) ==
    CASE f = "Transition" -> "transition"
      [] f = "UpperLevel" -> "upper level"
      [] f = "LowerLevel" -> "lower level"
      [] f = "SpontaneousDecayRate" -> "spontaneous decay rate [s-1]"

\* RadiativeTransition::from_str
RadiativeTransition_from_str(s) ==
    LET values == SplitWhitespace(s)
        nth(f) == values[RadiativeTransitionField_ord(f) + 1]
    IN
    IF Len(values) < 1 THEN MissingField("Transition", "Integer")
    ELSE IF ~ParseU32(values[1]).ok
    THEN UnknownFormat("Transition", nth("Transition"), "Integer")
    ELSE IF Len(values) < 2 THEN MissingField("UpperLevel", "Integer")
    ELSE IF ~ParseU32(values[2]).ok
    THEN UnknownFormat("UpperLevel", nth("UpperLevel"), "Integer")
    ELSE IF Len(values) < 3 THEN MissingField("LowerLevel", "Integer")
    ELSE IF ~ParseU32(values[3]).ok
    THEN UnknownFormat("LowerLevel", nth("LowerLevel"), "Integer")
    ELSE IF Len(values) < 4 THEN MissingField("SpontaneousDecayRate", "Float")
    ELSE IF ~ParseF64(values[4]).ok
    THEN UnknownFormat("SpontaneousDecayRate", nth("SpontaneousDecayRate"), "Float")
    ELSE [ok |-> TRUE,
          val |-> [transition |-> ParseU32(values[1]).val,
                   up |-> ParseU32(values[2]).val,
                   low |-> ParseU32(values[3]).val,
                   aeinst |-> ParseF64(values[4]).val,
                   extra |-> TrimMatches(JoinFrom(values, 5), TailTrim)]]

\* enum CollisionalRatesField as usize
CollisionalRatesField_ord(f) ==
    CASE f = "Transition" -> 0 [] f = "UpperLevel" -> 1 [] f = "LowerLevel" -> 2
      [] f = "RateCoefficients" -> 3

\* Display of CollisionalRatesField
CollisionalRatesField_fmt(f) ==
    CASE f = "Transition" -> "transition"
      [] f = "UpperLevel" -> "upper level"
      [] f = "LowerLevel" -> "lower level"
      [] f = "RateCoefficients" -> "rate coefficients [cm3 s-1]"

\* CollisionalRates::from_str
CollisionalRates_from_str(s) ==
    LET values == SplitWhitespace(s)
        nth(f) == values[CollisionalRatesField_ord(f) + 1]
        rates == ParseFloats(values, 4, <<>>)
    IN
    IF Len(values) < 1 THEN MissingField("Transition", "Integer")
    ELSE IF ~ParseU32(values[1]).ok
    THEN UnknownFormat("Transition", nth("Transition"), "Integer")
    ELSE IF Len(values) < 2 THEN MissingField("UpperLevel", "Integer")
    ELSE IF ~ParseU32(values[2]).ok
    THEN UnknownFormat("UpperLevel", nth("UpperLevel"), "Integer")
    ELSE IF Len(values) < 3 THEN MissingField("LowerLevel", "Integer")
    ELSE IF ~ParseU32(values[3]).ok
    THEN UnknownFormat("LowerLevel", nth("LowerLevel"), "Integer")
    ELSE IF ~rates.ok THEN UnknownFormat("RateCoefficients", rates.value, "Float")
    ELSE [ok |-> TRUE,
          val |-> [transition |-> ParseU32(values[1]).val,
                   up |-> ParseU32(values[2]).val,
                   low |-> ParseU32(values[3]).val,
                   rates |-> rates.val]]

\* ------------------------------------------------------------------------
\* The texts explored
\* ------------------------------------------------------------------------
\* A text is written line by line by a writer that follows the LAMDA layout
\* with counts of its own choice, and that may replace one line of the
\* document by an arbitrary line of `Lines` and may end the text anywhere.
\* The writer keeps its own position in the layout (w.pc), the records left
\* in the block it is writing (w.left), the partner blocks left (w.parts) and
\* the number of trailing lines written (w.trail); it never looks at the
\* parser.

LComment == <<"!", "c">>

LBlank == <<>>

LName == <<"O", " ", "!", "n">>

LWeight == <<"1", "6", ".", "0">>

LLevel == <<"1", " ", "0", ".", "0", " ", "5", ".", "0", " ", "q">>

LTransition == <<"1", " ", "2", " ", "1", " ", "8", "E", "-", "5", " ", "f">>

LPartner == <<"5", " ", "O">>

LTemperatures == <<"1", "0", " ", "2", "e", "1">>

LRates == <<"1", " ", "2", " ", "1", " ", "7", "e", "-", "1", " ", "8", "e", "-", "1">>

CountLine(n) == <<Digits[n + 1]>>

\* the lines that may replace a line of the document
Lines ==
    { LComment, LBlank, LName, LWeight, LLevel, LTransition, LPartner, LTemperatures, LRates,
      <<" ", "!", " ", "c", " ">>,                  \* a comment inside whitespace
      <<"\t", "!", "\t", "c">>,                     \* a comment with tabs
      <<" ">>,                                      \* whitespace only
      <<"x">>,                                      \* no comment, no number
      <<"0">>, <<"2">>, <<" ", "1", " ">>, <<"+", "1">>, <<"-", "1">>,
      <<"9">>,
      <<"4", "2", "9", "4", "9", "6", "7", "2", "9", "4">>,   \* u32::MAX - 1
      <<"4", "2", "9", "4", "9", "6", "7", "2", "9", "5">>,   \* u32::MAX
      <<"4", "2", "9", "4", "9", "6", "7", "2", "9", "6">>,   \* u32::MAX + 1
      <<"n", "a", "n">>,
      <<"1", " ", "2">>,                            \* two tokens
      <<"1", " ", "2", " ", "1">>,                  \* three tokens
      <<"1", " ", "x", " ", "5">>,                  \* a bad second token
      <<"1", " ", "2", " ", "1", " ", "x">>,        \* a bad fourth token
      <<"1", "e", "5", " ", "e">>,                  \* a bad token inside a good one
      <<" ", "2">>,                                 \* a partner code after whitespace
      <<"2", "\t", "i">>,                           \* a partner code, a tab, information
      <<"7", " ", " ", "!", " ", "i", " ">>,        \* a partner code and information
      <<"8", " ", "i">>                             \* an unknown partner code
    }

WriterInit == [pc |-> "c_name", left |-> 0, parts |-> 0, trail |-> 0]

\* the counts the writer may declare at its position (for a trailing line: 0
\* for a comment, 1 for a blank line); once it has replaced a line it goes on
\* with the largest counts
WriterChoices(wr, faulty) ==
    CASE wr.pc \in {"nlev", "nlin", "ncol"} -> IF faulty THEN {MaxCount} ELSE 0..MaxCount
      [] wr.pc = "npart" -> IF faulty THEN {MaxPart} ELSE 0..MaxPart
      [] wr.pc = "trailing" -> IF faulty THEN {0} ELSE 0..1
      [] OTHER -> {0}

WriterComments ==
    {"c_name", "c_weight", "c_nlev", "c_levels", "c_nlin", "c_trans", "c_npart",
     "c_pname", "c_ncol", "c_ntemp", "c_temps", "c_rates"}

\* the line of the document at the writer's position, n being the count chosen
WriterLine(wr, n) ==
    CASE wr.pc \in WriterComments -> LComment
      [] wr.pc = "name" -> LName
      [] wr.pc = "weight" -> LWeight
      [] wr.pc \in {"nlev", "nlin", "npart", "ncol"} -> CountLine(n)
      [] wr.pc = "ntemp" -> CountLine(2)
      [] wr.pc = "levels" -> LLevel
      [] wr.pc = "trans" -> LTransition
      [] wr.pc = "pname" -> LPartner
      [] wr.pc = "temps" -> LTemperatures
      [] wr.pc = "rates" -> LRates
      [] wr.pc = "trailing" -> IF n = 0 THEN LComment ELSE LBlank

\* the writer's position after the last record of a partner block
WriterNextPartner(wr) ==
    IF wr.parts > 1 THEN [wr EXCEPT !.pc = "c_pname", !.parts = wr.parts - 1, !.left = 0]
    ELSE [wr EXCEPT !.pc = "trailing", !.parts = 0, !.left = 0]

\* the writer's position after the line at wr.pc, n being the count chosen
WriterStep(wr, n) ==
    CASE wr.pc = "c_name" -> [wr EXCEPT !.pc = "name"]
      [] wr.pc = "name" -> [wr EXCEPT !.pc = "c_weight"]
      [] wr.pc = "c_weight" -> [wr EXCEPT !.pc = "weight"]
      [] wr.pc = "weight" -> [wr EXCEPT !.pc = "c_nlev"]
      [] wr.pc = "c_nlev" -> [wr EXCEPT !.pc = "nlev"]
      [] wr.pc = "nlev" -> [wr EXCEPT !.pc = "c_levels", !.left = n]
      [] wr.pc = "c_levels" -> [wr EXCEPT !.pc = IF wr.left > 0 THEN "levels" ELSE "c_nlin"]
      [] wr.pc = "levels" ->
            [wr EXCEPT !.pc = IF wr.left > 1 THEN "levels" ELSE "c_nlin", !.left = wr.left - 1]
      [] wr.pc = "c_nlin" -> [wr EXCEPT !.pc = "nlin"]
      [] wr.pc = "nlin" -> [wr EXCEPT !.pc = "c_trans", !.left = n]
      [] wr.pc = "c_trans" -> [wr EXCEPT !.pc = IF wr.left > 0 THEN "trans" ELSE "c_npart"]
      [] wr.pc = "trans" ->
            [wr EXCEPT !.pc = IF wr.left > 1 THEN "trans" ELSE "c_npart", !.left = wr.left - 1]
      [] wr.pc = "c_npart" -> [wr EXCEPT !.pc = "npart"]
      [] wr.pc = "npart" ->
            [wr EXCEPT !.pc = IF n > 0 THEN "c_pname" ELSE "trailing", !.parts = n]
      [] wr.pc = "c_pname" -> [wr EXCEPT !.pc = "pname"]
      [] wr.pc = "pname" -> [wr EXCEPT !.pc = "c_ncol"]
      [] wr.pc = "c_ncol" -> [wr EXCEPT !.pc = "ncol"]
      [] wr.pc = "ncol" -> [wr EXCEPT !.pc = "c_ntemp", !.left = n]
      [] wr.pc = "c_ntemp" -> [wr EXCEPT !.pc = "ntemp"]
      [] wr.pc = "ntemp" -> [wr EXCEPT !.pc = "c_temps"]
      [] wr.pc = "c_temps" -> [wr EXCEPT !.pc = "temps"]
      [] wr.pc = "temps" -> [wr EXCEPT !.pc = "c_rates"]
      [] wr.pc = "c_rates" ->
            IF wr.left > 0 THEN [wr EXCEPT !.pc = "rates"] ELSE WriterNextPartner(wr)
      [] wr.pc = "rates" ->
            IF wr.left > 1 THEN [wr EXCEPT !.left = wr.left - 1] ELSE WriterNextPartner(wr)
      [] wr.pc = "trailing" -> [wr EXCEPT !.trail = wr.trail + 1]

\* The layout from_str reads, line kind by line kind: whether from_str takes
\* line l at the writer's position (and, for a count line, reads the count n
\* the writer goes on with).
IsCommentLine(l) == StartsWith(Trim(l), "!")

IsBlankLine(l) == Trim(l) = <<>>

IsCountLine(l, n) == ParseU32(Trim(l)) = [ok |-> TRUE, val |-> ToU32(n)]

FollowsLayout(wr, n, l) ==
    CASE wr.pc \in WriterComments -> IsCommentLine(l)
      [] wr.pc = "name" -> TRUE
      [] wr.pc = "weight" -> ParseF64(Trim(l)).ok
      [] wr.pc \in {"nlev", "nlin", "npart", "ncol"} -> IsCountLine(l, n)
      [] wr.pc = "ntemp" -> ParseU32(Trim(l)).ok
      [] wr.pc = "levels" -> EnergyLevel_from_str(l).ok
      [] wr.pc = "trans" -> RadiativeTransition_from_str(l).ok
      [] wr.pc = "pname" -> CollisionPartnerName_from_str(l).ok
      [] wr.pc = "temps" -> CollisionalTemperatures_from_str(l).ok
      [] wr.pc = "rates" -> CollisionalRates_from_str(l).ok
      [] wr.pc = "trailing" -> IsCommentLine(l) \/ IsBlankLine(l)

\* ------------------------------------------------------------------------
\* ParseError
\* ------------------------------------------------------------------------
\* A note is its format string with the values that fill its {} places. SANY
\* cannot read a grave accent inside a string: the grave accents of the notes
\* are written as apostrophes.

NoError == [kind |-> "None"]

NotEnoughInput(line_number) == [kind |-> "NotEnoughInput", line_number |-> line_number]

WrongCommentFormat(line_number, l, note) ==
    [kind |-> "WrongCommentFormat", line_number |-> line_number, line |-> l, note |-> note]

ParseMissingField(line_number, l, note) ==
    [kind |-> "MissingField", line_number |-> line_number, line |-> l, note |-> note]

NotFloat(line_number, l, note) ==
    [kind |-> "NotFloat", line_number |-> line_number, line |-> l, note |-> note]

NotInt(line_number, l, note) ==
    [kind |-> "NotInt", line_number |-> line_number, line |-> l, note |-> note]

UnknownItem(line_number, column, value_width, l, note) ==
    [kind |-> "UnknownItem", line_number |-> line_number, column |-> column,
     value_width |-> value_width, line |-> l, note |-> note]

UnknownCollisionPartner(line_number, l, note) ==
    [kind |-> "UnknownCollisionPartner", line_number |-> line_number, line |-> l, note |-> note]

CommentNote == [fmt |-> "Comment should begin with '!' character", args |-> <<>>]

FloatNote == [fmt |-> "Expected floating point number", args |-> <<>>]

IntNote == [fmt |-> "Expected integer", args |-> <<>>]

PartnerNote ==
    [fmt |-> "Unknown collision partner id (1=H2, 2=para-H2, 3=ortho-H2, 4=electrons, 5=H, 6=He, 7=H+)",
     args |-> <<>>]

MissingFieldNote(field, expected) ==
    [fmt |-> "Missing field '{}' with value of {} type", args |-> <<field, expected>>]

UnknownFormatNote(value, field, expected) ==
    [fmt |-> "Value '{}' from field '{}' has wrong type (should be {})",
     args |-> <<value, field, expected>>]

TemperatureNote(value) ==
    [fmt |-> "Value '{}' has wrong type (should be floating point number)", args |-> <<value>>]

TrailingNote(n) ==
    [fmt |-> "{} collision partners were read, only comments with additional information should be left",
     args |-> <<n>>]

\* Option::unwrap_or(0) of a str::find result
UnwrapOr0(found) == IF found = -1 THEN 0 ELSE found

\* validate_and_parse_comment testing the raw line instead of the trimmed one
validate_and_parse_comment_untrimmed(line_number, l) ==
    IF StartsWith(l, "!")
    THEN [ok |-> TRUE, val |-> Comment_from_str(l), err |-> NoError]
    ELSE [ok |-> FALSE, val |-> <<>>, err |-> WrongCommentFormat(line_number, l, CommentNote)]

\* ElementData::validate_and_parse_comment
validate_and_parse_comment(line_number, l) ==
    IF StartsWith(Trim(l), "!")
    THEN [ok |-> TRUE, val |-> Comment_from_str(l), err |-> NoError]
    ELSE [ok |-> FALSE, val |-> <<>>, err |-> WrongCommentFormat(line_number, l, CommentNote)]

\* the ParseError from_str makes of a failed energy-level line el
EnergyLevelError(el, e) ==
    IF e.kind = "MissingField"
    THEN ParseMissingField(el.num, el.text,
            MissingFieldNote(EnergyLevelField_fmt(e.field), ExpectedFieldValue_fmt(e.expected)))
    ELSE UnknownItem(el.num, UnwrapOr0(Find(el.text, e.value)), Len(e.value), el.text,
            UnknownFormatNote(e.value, EnergyLevelField_fmt(e.field),
                              ExpectedFieldValue_fmt(e.expected)))

\* the ParseError from_str makes of a failed radiative-transition line el
RadiativeTransitionError(el, e) ==
    IF e.kind = "MissingField"
    THEN ParseMissingField(el.num, el.text,
            MissingFieldNote(RadiativeTransitionField_fmt(e.field),
                             ExpectedFieldValue_fmt(e.expected)))
    ELSE UnknownItem(el.num, UnwrapOr0(Find(el.text, e.value)), Len(e.value), el.text,
            UnknownFormatNote(e.value, RadiativeTransitionField_fmt(e.field),
                              ExpectedFieldValue_fmt(e.expected)))

\* the ParseError from_str makes of a failed collisional-rates line el
CollisionalRatesError(el, e) ==
    IF e.kind = "MissingField"
    THEN ParseMissingField(el.num, el.text,
            MissingFieldNote(CollisionalRatesField_fmt(e.field),
                             ExpectedFieldValue_fmt(e.expected)))
    ELSE UnknownItem(el.num, UnwrapOr0(Find(el.text, e.value)), Len(e.value), el.text,
            UnknownFormatNote(e.value, CollisionalRatesField_fmt(e.field),
                              ExpectedFieldValue_fmt(e.expected)))

\* ------------------------------------------------------------------------
\* Display for ParseError
\* ------------------------------------------------------------------------
\* The rendering is kept as its three lines: l1 and l2 are their characters
\* with the closing newline, l3 is the characters before the note, the note,
\* and the characters after it.

linenum_width == 6

\* the decimal digits of n, as {} writes a usize
RECURSIVE DecDigits(_)
DecDigits(n) ==
    IF n < 10 THEN <<Digits[n + 1]>> ELSE DecDigits(n \div 10) \o <<Digits[(n % 10) + 1]>>

Repeat(c, n) == [i \in 1..n |-> c]

\* {:>width$}: s right-aligned in at least width columns, filled with spaces
PadLeft(s, width) == Repeat(" ", width - Len(s)) \o s

\* {:^<width$}: s left-aligned in at least width columns, filled with carets
PadCarets(s, width) == s \o Repeat("^", width - Len(s))

\* line.replace("\t", " ")
ReplaceTabs(l) == [i \in 1..Len(l) |-> IF l[i] = "\t" THEN " " ELSE l[i]]

\* "{:>linenum_width$} | {}\n"
FirstLine(line_number, l) ==
    PadLeft(DecDigits(line_number), linenum_width) \o <<" ", "|", " ">> \o l \o <<"\n">>

\* "{:>linenum_width$} | ...\n" with " " in the gutter
SecondLine(carets) == PadLeft(<<" ">>, linenum_width) \o <<" ", "|", " ">> \o carets \o <<"\n">>

\* "{:>linenum_width$} = {}.\n" with " " in the gutter
ThirdLine(note) ==
    [pre |-> PadLeft(<<" ">>, linenum_width) \o <<" ", "=", " ">>, note |-> note,
     post |-> <<".", "\n">>]

EmptyLineNote(line_number) ==
    [fmt |-> "Line {} is empty, but there should be more input", args |-> <<line_number>>]

\* <ParseError as Display>::fmt
ParseError_fmt(e) ==
    CASE e.kind = "NotEnoughInput" ->
            [l1 |-> PadLeft(DecDigits(e.line_number), linenum_width) \o <<" ", "|", "\n">>,
             l2 |-> SecondLine(PadCarets(<<"^">>, linenum_width)),
             l3 |-> ThirdLine(EmptyLineNote(e.line_number))]
      [] e.kind = "WrongCommentFormat" ->
            [l1 |-> FirstLine(e.line_number, e.line),
             l2 |-> SecondLine(<<"^">>),
             l3 |-> ThirdLine(e.note)]
      [] e.kind = "MissingField" ->
            [l1 |-> FirstLine(e.line_number, e.line),
             l2 |-> SecondLine(PadLeft(<<" ">>, Len(e.line)) \o <<" ">>
                               \o PadCarets(<<"^">>, linenum_width)),
             l3 |-> ThirdLine(e.note)]
      [] e.kind \in {"NotFloat", "NotInt"} ->
            [l1 |-> FirstLine(e.line_number, e.line),
             l2 |-> SecondLine(PadCarets(<<"^">>, Len(e.line))),
             l3 |-> ThirdLine(e.note)]
      [] e.kind = "UnknownItem" ->
            [l1 |-> FirstLine(e.line_number, ReplaceTabs(e.line)),
             l2 |-> SecondLine(PadLeft(<<" ">>, e.column) \o PadCarets(<<"^">>, e.value_width)),
             l3 |-> ThirdLine(e.note)]
      [] e.kind = "UnknownCollisionPartner" ->
            [l1 |-> FirstLine(e.line_number, e.line),
             l2 |-> SecondLine(PadLeft(<<" ">>, UnwrapOr0(FindAlphanumeric(e.line)))
                               \o PadCarets(<<"^">>,
                                    IF SplitWhitespace(e.line) = <<>> THEN 0
                                    ELSE Len(SplitWhitespace(e.line)[1]))),
             l3 |-> ThirdLine(e.note)]

\* ------------------------------------------------------------------------
\* ElementData::from_str
\* ------------------------------------------------------------------------

VARIABLES
    input,                  \* the lines of s the cursor has yielded so far
    eof,                    \* the cursor has returned None: s ends after input
    w,                      \* the writer's position in the document it writes
    fault,                  \* the writer has replaced a line of its document
    wf,                     \* every line of input follows the layout
    at,                     \* history: the grammar state of the step taken last
    got,                    \* history: what that step fetched: "line", "eof" or "none"
    ats,                    \* history: the grammar state each line of input was fetched in
    pc,                     \* the grammar state from_str is in
    line,                   \* `line`: the (index, text) pair fetched last
    name, information, weight,
    nlev, energy_levels,
    nlin, radiative_transitions,
    npart, range_start, range_end,      \* the range 1..(npart + 1) of the for loop
    collision_partners,
    cp_name, cp_information, ncol, ntemp, temperatures, rates,  \* locals of the loop body
    ncols,                  \* history: the ncol declared for each partner pushed
    additional_info,
    result,                 \* what from_str returns, once it has returned
    arg,                    \* the function called and its argument
    out                     \* what a function called on its own has returned

envVars == <<input, eof, w, fault, wf>>

docVars == <<name, information, weight, energy_levels, radiative_transitions, collision_partners>>

countVars == <<nlev, nlin, npart, range_start, range_end>>

partVars == <<cp_name, cp_information, ncol, ntemp, temperatures, rates, ncols>>

histVars == <<at, got, ats>>

callVars == <<arg, out>>

vars == <<envVars, histVars, pc, line, docVars, countVars, partVars, additional_info, result, callVars>>

\* the variables of from_str before its first step
AtEntry ==
    /\ input = <<>>
    /\ eof = FALSE
    /\ w = WriterInit
    /\ fault = FALSE
    /\ wf = TRUE
    /\ at = "start"
    /\ got = "none"
    /\ ats = <<>>
    /\ line = [num |-> 0, text |-> <<>>]
    /\ name = <<>>
    /\ information = <<>>
    /\ weight = [kind |-> "none"]
    /\ nlev = ToU32(0)
    /\ energy_levels = <<>>
    /\ nlin = ToU32(0)
    /\ radiative_transitions = <<>>
    /\ npart = ToU32(0)
    /\ range_start = ToU32(0)
    /\ range_end = ToU32(0)
    /\ collision_partners = <<>>
    /\ cp_name = "none"
    /\ cp_information = <<>>
    /\ ncol = ToU32(0)
    /\ ntemp = ToU32(0)
    /\ temperatures = <<>>
    /\ rates = <<>>
    /\ ncols = <<>>
    /\ additional_info = <<>>
    /\ result = NoError

\* ElementData::from_str(s) is called
Init ==
    /\ AtEntry
    /\ pc = "c_name"
    /\ arg = [fn |-> "ElementData::from_str"]
    /\ out = <<>>

\* what lines.next() may return: None, or a line the writer writes now
Offers ==
    {[eof |-> TRUE, line |-> <<>>, w |-> w, fault |-> fault, ok |-> wf]}
    \cup
    (IF eof \/ (w.pc = "trailing" /\ w.trail >= MaxTrail) THEN {}
     ELSE UNION {
            { [eof |-> FALSE, line |-> l, w |-> WriterStep(w, n),
               fault |-> fault \/ l # WriterLine(w, n),
               ok |-> wf /\ FollowsLayout(w, n, l)]
              : l \in (IF fault THEN {} ELSE Lines) \cup {WriterLine(w, n)} }
            : n \in WriterChoices(w, fault) })

\* lines.next() returning o
Fetch(o) ==
    /\ at' = pc
    /\ got' = IF o.eof THEN "eof" ELSE "line"
    /\ ats' = IF o.eof THEN ats ELSE Append(ats, pc)
    /\ UNCHANGED callVars
    /\ IF o.eof THEN eof' = TRUE /\ UNCHANGED <<input, w, fault, wf>>
       ELSE /\ input' = Append(input, o.line)
            /\ w' = o.w
            /\ fault' = o.fault
            /\ wf' = o.ok
            /\ UNCHANGED eof

\* a step that fetches nothing
NoFetch ==
    /\ at' = pc
    /\ got' = "none"
    /\ UNCHANGED <<envVars, ats, callVars>>

\* the (index, text) pair of enumerate() for the line fetched now
Enumerated(o) == [num |-> Len(input), text |-> o.line]

\* an error that is recorded while the parse goes on with the next line
FailAndResume(e) ==
    /\ result' = e
    /\ UNCHANGED <<pc, docVars, countVars, partVars, additional_info>>

\* return Err(e)
Fail(e) ==
    /\ pc' = "error"
    /\ result' = e
    /\ UNCHANGED <<docVars, countVars, partVars, additional_info>>

\* the line_number of lines.next().ok_or(ParseError::NotEnoughInput{..})
NextLineNumber(here) == IF here = "c_name" THEN 1 ELSE line.num + 1

\* a comment line is expected: lines.next(), validate_and_parse_comment
ExpectComment(here, then) ==
    /\ pc = here
    /\ \E o \in Offers :
        /\ Fetch(o)
        /\ IF o.eof THEN Fail(NotEnoughInput(NextLineNumber(here))) /\ UNCHANGED line
           ELSE LET comment == validate_and_parse_comment(Enumerated(o).num, Enumerated(o).text) IN
                /\ line' = Enumerated(o)
                /\ IF comment.ok
                   THEN /\ pc' = then
                        /\ UNCHANGED <<docVars, countVars, partVars, additional_info, result>>
                   ELSE Fail(comment.err)

\* the name line
ExpectName ==
    /\ pc = "name"
    /\ \E o \in Offers :
        /\ Fetch(o)
        /\ IF o.eof THEN Fail(NotEnoughInput(line.num + 1)) /\ UNCHANGED line
           ELSE /\ line' = Enumerated(o)
                /\ name' = ElementName_from_str(o.line).name
                /\ information' = ElementName_from_str(o.line).information
                /\ pc' = "c_weight"
                /\ UNCHANGED <<weight, energy_levels, radiative_transitions, collision_partners,
                               countVars, partVars, additional_info, result>>

\* the weight line
ExpectWeight ==
    /\ pc = "weight"
    /\ \E o \in Offers :
        /\ Fetch(o)
        /\ IF o.eof THEN Fail(NotEnoughInput(line.num + 1)) /\ UNCHANGED line
           ELSE /\ line' = Enumerated(o)
                /\ IF ElementWeight_from_str(o.line).ok
                   THEN /\ weight' = ElementWeight_from_str(o.line).val
                        /\ pc' = "c_nlev"
                        /\ UNCHANGED <<name, information, energy_levels, radiative_transitions,
                                       collision_partners, countVars, partVars, additional_info,
                                       result>>
                   ELSE Fail(NotFloat(Len(input), o.line, FloatNote))

\* the level-count line
ExpectLevelCount ==
    /\ pc = "nlev"
    /\ \E o \in Offers :
        /\ Fetch(o)
        /\ IF o.eof THEN Fail(NotEnoughInput(line.num + 1)) /\ UNCHANGED line
           ELSE /\ line' = Enumerated(o)
                /\ IF NumberOfEnergyLevels_from_str(o.line).ok
                   THEN /\ nlev' = NumberOfEnergyLevels_from_str(o.line).val
                        /\ pc' = "c_levels"
                        /\ UNCHANGED <<docVars, nlin, npart, range_start, range_end, partVars,
                                       additional_info, result>>
                   ELSE Fail(NotInt(Len(input), o.line, IntNote))

\* a Take that asks for a first line whatever n is
TakeAtLeastOne(taken, n) == taken = 0 \/ U32Lt(ToU32(taken), n)

\* Take::next of lines.by_ref().take(n): whether the adapter, having yielded
\* `taken` lines, asks the cursor for another one
TakeHasNext(taken, n) == U32Lt(ToU32(taken), n)

\* lines.by_ref().take(nlev).map(parse).collect(): one energy-level line, or
\* the end of the block
ExpectLevels ==
    /\ pc = "levels"
    /\ IF TakeHasNext(Len(energy_levels), nlev)
       THEN \E o \in Offers :
            /\ Fetch(o)
            /\ UNCHANGED line
            /\ IF o.eof
               THEN /\ pc' = "c_nlin"
                    /\ UNCHANGED <<docVars, countVars, partVars, additional_info, result>>
               ELSE IF EnergyLevel_from_str(o.line).ok
               THEN /\ energy_levels' = Append(energy_levels, EnergyLevel_from_str(o.line).val)
                    /\ UNCHANGED <<pc, name, information, weight, radiative_transitions,
                                   collision_partners, countVars, partVars, additional_info,
                                   result>>
               ELSE Fail(EnergyLevelError(Enumerated(o), EnergyLevel_from_str(o.line).err))
       ELSE /\ pc' = "c_nlin"
            /\ NoFetch
            /\ UNCHANGED <<line, docVars, countVars, partVars, additional_info, result>>

\* the transition-count line
ExpectTransitionCount ==
    /\ pc = "nlin"
    /\ \E o \in Offers :
        /\ Fetch(o)
        /\ IF o.eof THEN Fail(NotEnoughInput(line.num + 1)) /\ UNCHANGED line
           ELSE /\ line' = Enumerated(o)
                /\ IF NumberOfRadiativeTransitions_from_str(o.line).ok
                   THEN /\ nlin' = NumberOfRadiativeTransitions_from_str(o.line).val
                        /\ pc' = "c_trans"
                        /\ UNCHANGED <<docVars, nlev, npart, range_start, range_end, partVars,
                                       additional_info, result>>
                   ELSE Fail(NotInt(Len(input), o.line, IntNote))

\* lines.by_ref().take(nlin).map(parse).collect(): one radiative-transition
\* line, or the end of the block
ExpectTransitions ==
    /\ pc = "trans"
    /\ IF TakeHasNext(Len(radiative_transitions), nlin)
       THEN \E o \in Offers :
            /\ Fetch(o)
            /\ UNCHANGED line
            /\ IF o.eof
               THEN /\ pc' = "c_npart"
                    /\ UNCHANGED <<docVars, countVars, partVars, additional_info, result>>
               ELSE IF RadiativeTransition_from_str(o.line).ok
               THEN /\ radiative_transitions' =
                            Append(radiative_transitions, RadiativeTransition_from_str(o.line).val)
                    /\ UNCHANGED <<pc, name, information, weight, energy_levels,
                                   collision_partners, countVars, partVars, additional_info,
                                   result>>
               ELSE Fail(RadiativeTransitionError(Enumerated(o),
                                                  RadiativeTransition_from_str(o.line).err))
       ELSE /\ pc' = "c_npart"
            /\ NoFetch
            /\ UNCHANGED <<line, docVars, countVars, partVars, additional_info, result>>

\* Vec::with_capacity(capacity) of CollisionPartnerData (80 bytes each) may be
\* refused by the allocator, which aborts the process. Whether a request is
\* granted depends on the memory of the machine: a request of 2^16 elements
\* or more is taken as one that may be refused, a smaller one as granted.
AllocationMayFail(capacity) == capacity.hi >= 1

\* the partner-count line, Vec::with_capacity(npart) and the range
\* 1..(npart + 1): the allocation may abort the process for a large npart;
\* npart + 1 overflows for npart = u32::MAX, which panics in a build with
\* overflow checks and wraps to 0 in a build without
ExpectPartnerCount ==
    /\ pc = "npart"
    /\ \E o \in Offers :
        /\ Fetch(o)
        /\ IF o.eof THEN Fail(NotEnoughInput(line.num + 1)) /\ UNCHANGED line
           ELSE /\ line' = Enumerated(o)
                /\ IF NumberOfCollisionPartners_from_str(o.line).ok
                   THEN \/ /\ AllocationMayFail(NumberOfCollisionPartners_from_str(o.line).val)
                           /\ Fail([kind |-> "Abort"])
                        \/ /\ npart' = NumberOfCollisionPartners_from_str(o.line).val
                           /\ range_start' = ToU32(1)
                           /\ range_end' = WrappingInc(npart')
                           /\ pc' = "for"
                           /\ UNCHANGED <<docVars, nlev, nlin, partVars, additional_info, result>>
                        \/ /\ NumberOfCollisionPartners_from_str(o.line).val = U32Max
                           /\ Fail([kind |-> "Panic"])
                   ELSE Fail(NotInt(Len(input), o.line, IntNote))

\* for _ in 1..(npart + 1): the next iteration, or the end of the loop
PartnerLoop ==
    /\ pc = "for"
    /\ IF U32Lt(range_start, range_end)
       THEN /\ range_start' = WrappingInc(range_start)
            /\ pc' = "c_pname"
       ELSE /\ pc' = "trailing"
            /\ UNCHANGED range_start
    /\ NoFetch
    /\ UNCHANGED <<line, docVars, nlev, nlin, npart, range_end, partVars, additional_info, result>>

\* the partner-name line
ExpectPartnerName ==
    /\ pc = "pname"
    /\ \E o \in Offers :
        /\ Fetch(o)
        /\ IF o.eof THEN Fail(NotEnoughInput(line.num + 1)) /\ UNCHANGED line
           ELSE /\ line' = Enumerated(o)
                /\ IF CollisionPartnerName_from_str(o.line).ok
                   THEN /\ cp_name' = CollisionPartnerName_from_str(o.line).name
                        /\ cp_information' = CollisionPartnerName_from_str(o.line).information
                        /\ pc' = "c_ncol"
                        /\ UNCHANGED <<docVars, countVars, ncol, ntemp, temperatures, rates, ncols,
                                       additional_info, result>>
                   ELSE Fail(UnknownCollisionPartner(Len(input), o.line, PartnerNote))

\* the line with the partner's number of collisional transitions
ExpectPartnerTransitionCount ==
    /\ pc = "ncol"
    /\ \E o \in Offers :
        /\ Fetch(o)
        /\ IF o.eof THEN Fail(NotEnoughInput(line.num + 1)) /\ UNCHANGED line
           ELSE /\ line' = Enumerated(o)
                /\ IF NumberOfCollisionalTransitions_from_str(o.line).ok
                   THEN /\ ncol' = NumberOfCollisionalTransitions_from_str(o.line).val
                        /\ pc' = "c_ntemp"
                        /\ UNCHANGED <<docVars, countVars, cp_name, cp_information, ntemp,
                                       temperatures, rates, ncols, additional_info, result>>
                   ELSE Fail(NotInt(Len(input), o.line, IntNote))

\* the line with the partner's number of temperatures
ExpectPartnerTempCount ==
    /\ pc = "ntemp"
    /\ \E o \in Offers :
        /\ Fetch(o)
        /\ IF o.eof THEN Fail(NotEnoughInput(line.num + 1)) /\ UNCHANGED line
           ELSE /\ line' = Enumerated(o)
                /\ IF NumberOfCollisionalTemperatures_from_str(o.line).ok
                   THEN /\ ntemp' = NumberOfCollisionalTemperatures_from_str(o.line).val
                        /\ pc' = "c_temps"
                        /\ UNCHANGED <<docVars, countVars, cp_name, cp_information, ncol,
                                       temperatures, rates, ncols, additional_info, result>>
                   ELSE Fail(NotInt(Len(input), o.line, IntNote))

\* a temperatures line that is checked against the declared number
ExpectTemperaturesCounted ==
    /\ pc = "temps"
    /\ \E o \in Offers :
        /\ Fetch(o)
        /\ IF o.eof THEN Fail(NotEnoughInput(line.num + 1)) /\ UNCHANGED line
           ELSE LET temps == CollisionalTemperatures_from_str(o.line) IN
                /\ line' = Enumerated(o)
                /\ IF temps.ok /\ ToU32(Len(temps.val)) = ntemp
                   THEN /\ temperatures' = temps.val
                        /\ pc' = "c_rates"
                        /\ UNCHANGED <<docVars, countVars, cp_name, cp_information, ncol, ntemp,
                                       rates, ncols, additional_info, result>>
                   ELSE Fail(NotInt(Len(input), o.line, IntNote))

\* the temperatures line
ExpectTemperatures ==
    /\ pc = "temps"
    /\ \E o \in Offers :
        /\ Fetch(o)
        /\ IF o.eof THEN Fail(NotEnoughInput(line.num + 1)) /\ UNCHANGED line
           ELSE LET temps == CollisionalTemperatures_from_str(o.line) IN
                /\ line' = Enumerated(o)
                /\ IF temps.ok
                   THEN /\ temperatures' = temps.val
                        /\ pc' = "c_rates"
                        /\ UNCHANGED <<docVars, countVars, cp_name, cp_information, ncol, ntemp,
                                       rates, ncols, additional_info, result>>
                   ELSE Fail(UnknownItem(Len(input), UnwrapOr0(Find(o.line, temps.value)),
                                         Len(temps.value), o.line, TemperatureNote(temps.value)))

\* collision_partners.push(CollisionPartnerData {name, information, temperatures, rates})
PushPartner ==
    /\ collision_partners' =
            Append(collision_partners,
                   [name |-> cp_name, information |-> cp_information,
                    temperatures |-> temperatures, rates |-> rates])
    /\ ncols' = Append(ncols, ncol)
    /\ rates' = <<>>
    /\ pc' = "for"
    /\ UNCHANGED <<name, information, weight, energy_levels, radiative_transitions, countVars,
                   cp_name, cp_information, ncol, ntemp, temperatures, additional_info, result>>

\* lines.by_ref().take(ncol).map(parse).collect(): one collisional-rates line,
\* or the end of the block and the push of the partner
ExpectRates ==
    /\ pc = "rates"
    /\ IF TakeHasNext(Len(rates), ncol)
       THEN \E o \in Offers :
            /\ Fetch(o)
            /\ UNCHANGED line
            /\ IF o.eof THEN PushPartner
               ELSE IF CollisionalRates_from_str(o.line).ok
               THEN /\ rates' = Append(rates, CollisionalRates_from_str(o.line).val)
                    /\ UNCHANGED <<pc, docVars, countVars, cp_name, cp_information, ncol, ntemp,
                                   temperatures, ncols, additional_info, result>>
               ELSE Fail(CollisionalRatesError(Enumerated(o), CollisionalRates_from_str(o.line).err))
       ELSE /\ PushPartner
            /\ NoFetch
            /\ UNCHANGED line

\* the document from_str returns
Document ==
    [name |-> name, information |-> information, weight |-> weight,
     energy_levels |-> energy_levels, radiative_transitions |-> radiative_transitions,
     collision_partners |-> collision_partners]

\* lines.map(..).collect::<Result<String, _>>(): one trailing line, or the end
\* of the text and Ok(Self {..})
ExpectTrailingComments ==
    /\ pc = "trailing"
    /\ \E o \in Offers :
        /\ Fetch(o)
        /\ UNCHANGED line
        /\ IF o.eof
           THEN /\ information' = information \o <<".", " ">> \o additional_info
                /\ result' = [kind |-> "Ok", doc |-> [Document EXCEPT !.information = information']]
                /\ pc' = "done"
                /\ UNCHANGED <<name, weight, energy_levels, radiative_transitions,
                               collision_partners, countVars, partVars, additional_info>>
           ELSE IF IsEmpty(Trim(o.line))
           THEN UNCHANGED <<pc, docVars, countVars, partVars, additional_info, result>>
           ELSE IF validate_and_parse_comment(Len(input), o.line).ok
           THEN /\ additional_info' =
                        additional_info \o validate_and_parse_comment(Len(input), o.line).val \o <<" ">>
                /\ UNCHANGED <<pc, docVars, countVars, partVars, result>>
           ELSE Fail(WrongCommentFormat(Len(input), o.line, TrailingNote(npart)))

Next ==
    \/ ExpectComment("c_name", "name")
    \/ ExpectName
    \/ ExpectComment("c_weight", "weight")
    \/ ExpectWeight
    \/ ExpectComment("c_nlev", "nlev")
    \/ ExpectLevelCount
    \/ ExpectComment("c_levels", "levels")
    \/ ExpectLevels
    \/ ExpectComment("c_nlin", "nlin")
    \/ ExpectTransitionCount
    \/ ExpectComment("c_trans", "trans")
    \/ ExpectTransitions
    \/ ExpectComment("c_npart", "npart")
    \/ ExpectPartnerCount
    \/ PartnerLoop
    \/ ExpectComment("c_pname", "pname")
    \/ ExpectPartnerName
    \/ ExpectComment("c_ncol", "ncol")
    \/ ExpectPartnerTransitionCount
    \/ ExpectComment("c_ntemp", "ntemp")
    \/ ExpectPartnerTempCount
    \/ ExpectComment("c_temps", "temps")
    \/ ExpectTemperatures
    \/ ExpectComment("c_rates", "rates")
    \/ ExpectRates
    \/ ExpectTrailingComments

Spec == Init /\ [][Next]_vars

\* ------------------------------------------------------------------------
\* The functions called on their own
\* ------------------------------------------------------------------------
\* Comment::from_str, ElementName::from_str and the Display of ParseError are
\* called once on an argument drawn from the sets below.

\* lines that pass the comment gate
CommentArgs ==
    {l \in Lines : IsCommentLine(l)}
    \cup { <<"!">>, <<"!", "!", "c">>, <<"!", "c", "\t">>,
           <<"!", " ", " ", "c", " ", "c", " ", " ">>, <<" ", "!", "c", "!", " ">> }

\* name lines
NameArgs == Lines \cup { <<"O", "\t", "!", "n">>, <<" ", "O", " ", " ", "!", " ", "n", " ">>, <<"O", " ">> }

LineNumbers == {0, 1, 12}

\* the errors rendered
DisplayArgs ==
    {NotEnoughInput(n) : n \in LineNumbers}
    \cup {WrongCommentFormat(n, l, CommentNote) : n \in LineNumbers, l \in Lines}
    \cup {ParseMissingField(n, l, MissingFieldNote("level", "integer")) : n \in LineNumbers, l \in Lines}
    \cup {NotFloat(n, l, FloatNote) : n \in LineNumbers, l \in Lines}
    \cup {NotInt(n, l, IntNote) : n \in LineNumbers, l \in Lines}
    \cup {UnknownCollisionPartner(n, l, PartnerNote) : n \in LineNumbers, l \in Lines}
    \cup {UnknownItem(1, c, v, l, TemperatureNote(<<"x">>)) :
            c \in 0..MaxColumn, v \in 1..MaxWidth, l \in Lines}

\* energy-level lines: the line of tests::parse_energy_level, tabs and runs of
\* spaces between the tokens, no tail, a tail of markers only, markers inside
\* the tail
LevelArgs ==
    Lines \cup
    { <<" ", " ", " ", "3", "2", " ", " ", "3", "2", ".", "4", " ", " ", " ", " ", "1", "e", "-", "1", "2", " ", " ", " ", "!", " ", "'", " ", "3", " ", "5", " ", "6", "'">>,
      <<"1", "\t", "0", ".", "0", "\t", "\t", "5", ".", "0", "\t", "q", " ", " ", "q">>,
      <<"1", " ", "0", ".", "0", " ", "5", ".", "0">>,
      <<" ", "1", " ", "0", ".", "0", " ", "5", ".", "0", " ", "!", " ", "'", " ">>,
      <<"1", " ", "0", ".", "0", " ", "5", ".", "0", " ", "!", " ", "a", " ", "!", " ", "c", " ", "!">> }

\* radiative-transition lines: the line of tests::parse_radiative_transition,
\* tabs between the tokens, no tail, a tail of markers only
TransitionArgs ==
    Lines \cup
    { <<" ", " ", "4", "5", " ", "3", "2", " ", "9", " ", " ", "1", "e", "-", "1", "4", " ", " ", " ", " ", " ", "3", "4", "5", ".", "3", "2", " ", " ", " ", " ", "A", "d", "d", "i", "t", "i", "o", "n", "a", "l">>,
      <<"1", "\t", "2", "\t", "1", " ", " ", "8", "E", "-", "5", " ", "\t", "f", " ", "'", " ", "f">>,
      <<"1", " ", "2", " ", "1", " ", "8", "E", "-", "5">>,
      <<"1", " ", "2", " ", "1", " ", "8", "E", "-", "5", " ", "'", "!", "'", " ">> }

\* collisional-rates lines: the line of tests::parse_collisional_rates, tabs
\* between the tokens, a rate that is no float
RatesArgs ==
    Lines \cup
    { <<"6", "5", " ", "4", "2", " ", "1", "3", " ", " ", " ", " ", "1", "2", "e", "-", "1", "2", " ", "1", "3", "e", "-", "1", "3", " ", "1", "4", "e", "-", "1", "4">>,
      <<"\t", "1", " ", "2", "\t", "\t", "1", " ", " ", " ", "7", "e", "-", "1", "\t", "8", "e", "-", "1", " ">>,
      <<"1", " ", "2", " ", "1", " ", "7", "e", "-", "1", " ", "x", " ", "8", "e", "-", "1">> }

CallArgs ==
    {[fn |-> "Comment::from_str", s |-> l] : l \in CommentArgs}
    \cup {[fn |-> "ElementName::from_str", s |-> l] : l \in NameArgs}
    \cup {[fn |-> "ParseError::fmt", e |-> e] : e \in DisplayArgs}
    \cup {[fn |-> "EnergyLevel::from_str", s |-> l] : l \in LevelArgs}
    \cup {[fn |-> "RadiativeTransition::from_str", s |-> l] : l \in TransitionArgs}
    \cup {[fn |-> "CollisionalRates::from_str", s |-> l] : l \in RatesArgs}

InitCalls ==
    /\ AtEntry
    /\ pc = "call"
    /\ arg \in CallArgs
    /\ out = <<>>

\* the function called returns v
Return(v) ==
    /\ out' = v
    /\ pc' = "returned"
    /\ UNCHANGED <<arg, envVars, histVars, line, docVars, countVars, partVars, additional_info, result>>

CallComment == pc = "call" /\ arg.fn = "Comment::from_str" /\ Return(Comment_from_str(arg.s))

CallElementName == pc = "call" /\ arg.fn = "ElementName::from_str" /\ Return(ElementName_from_str(arg.s))

CallDisplay == pc = "call" /\ arg.fn = "ParseError::fmt" /\ Return(ParseError_fmt(arg.e))

CallEnergyLevel == pc = "call" /\ arg.fn = "EnergyLevel::from_str" /\ Return(EnergyLevel_from_str(arg.s))

CallRadiativeTransition ==
    pc = "call" /\ arg.fn = "RadiativeTransition::from_str" /\ Return(RadiativeTransition_from_str(arg.s))

CallCollisionalRates ==
    pc = "call" /\ arg.fn = "CollisionalRates::from_str" /\ Return(CollisionalRates_from_str(arg.s))

NextCalls ==
    \/ CallComment
    \/ CallElementName
    \/ CallDisplay
    \/ CallEnergyLevel
    \/ CallRadiativeTransition
    \/ CallCollisionalRates

SpecCalls == InitCalls /\ [][NextCalls]_vars

\* ------------------------------------------------------------------------
\* Properties
\* ------------------------------------------------------------------------

Returned == pc \in {"done", "error"}

\* the error kinds that carry a line
LineErrorKinds ==
    {"WrongCommentFormat", "MissingField", "NotFloat", "NotInt", "UnknownItem",
     "UnknownCollisionPartner"}

\* the line fetched last
LastLine == input[Len(input)]

\* a partner-name line: a code 1..7, then the end of the line or whitespace and
\* anything
IsPartnerLine(l) ==
    /\ SplitWhitespace(l) # <<>>
    /\ ParseU32(SplitWhitespace(l)[1]).ok
    /\ CollisionPartnerId_try_from(ParseU32(SplitWhitespace(l)[1]).val).ok

\* the text is complete and every line of it follows the layout
WellFormed == wf /\ eof /\ w.pc = "trailing"

\* the sequences of the document have the lengths the count lines declared
LengthsAsDeclared ==
    /\ ToU32(Len(energy_levels)) = nlev
    /\ ToU32(Len(radiative_transitions)) = nlin
    /\ ToU32(Len(collision_partners)) = npart
    /\ Len(ncols) = Len(collision_partners)
    /\ \A k \in 1..Len(collision_partners) :
            ToU32(Len(collision_partners[k].rates)) = ncols[k]

\* C1: every text that follows the layout parses to Ok, with sequences of the
\* declared lengths. A text whose lines so far are lines from_str takes has
\* not failed other than by ending early, and a complete one returns Ok; and
\* at the partner-name position of such a text every partner-name line of the
\* layout (a code 1..7, then the end of the line or whitespace and anything)
\* is taken.
C1_WellFormedParses ==
    /\ wf => result.kind \in {"None", "Ok", "NotEnoughInput"}
    /\ (WellFormed /\ Returned) => (result.kind = "Ok" /\ LengthsAsDeclared)
    /\ (at = "pname" /\ got = "line" /\ IsPartnerLine(LastLine)) => result = NoError

\* C2: whenever from_str returns Ok, every bounded section has exactly the
\* length its count line declared, for every partner including the last one.
C2_OkLengthsAsDeclared == result.kind = "Ok" => LengthsAsDeclared

\* C4: every error that carries a line has the 1-based number of the offending
\* line, the line fetched last, and that line's raw text.
C4_LineNumberOneBased ==
    result.kind \in LineErrorKinds =>
        /\ result.line_number = Len(input)
        /\ result.line = input[Len(input)]

\* C5: NotEnoughInput carries the number of the line after the last line of
\* the text.
C5_NotEnoughInputAfterLast ==
    result.kind = "NotEnoughInput" => result.line_number = Len(input) + 1

\* what each grammar state takes as its line
AcceptedBy(state, l) ==
    CASE state \in WriterComments -> IsCommentLine(l)
      [] state = "name" -> TRUE
      [] state = "weight" -> ParseF64(Trim(l)).ok
      [] state \in {"nlev", "nlin", "npart", "ncol", "ntemp"} -> ParseU32(Trim(l)).ok
      [] state = "levels" -> EnergyLevel_from_str(l).ok
      [] state = "trans" -> RadiativeTransition_from_str(l).ok
      [] state = "pname" -> CollisionPartnerName_from_str(l).ok
      [] state = "temps" -> CollisionalTemperatures_from_str(l).ok
      [] state = "rates" -> CollisionalRates_from_str(l).ok
      [] state = "trailing" -> IsCommentLine(l) \/ IsBlankLine(l)

\* C3: parsing is fail-fast. Once from_str has failed nothing more happens and
\* no document comes with the error; an error that carries a line carries the
\* line fetched last, which its grammar state does not take; and a line after
\* which the parse goes on is taken by the grammar state it was fetched in
\* (input only grows, so this holds for every line before the failing one).
C3_FailFast ==
    /\ Len(ats) = Len(input)
    /\ result.kind \notin {"None", "Ok"} =>
            /\ pc = "error"
            /\ ~ENABLED Next
            /\ DOMAIN result \cap {"doc"} = {}
    /\ result.kind \in LineErrorKinds =>
            /\ got = "line"
            /\ result.line = LastLine
            /\ ~AcceptedBy(ats[Len(input)], LastLine)
    /\ (result.kind = "None" /\ got = "line") => AcceptedBy(ats[Len(input)], LastLine)

\* C3 witness: an error on the fifth line or later, after lines that were taken
C3_Witness == result.kind \in LineErrorKinds /\ Len(input) >= 5 /\ pc = "error"

\* the state that follows each comment state in the grammar
AfterComment ==
    [c_name |-> "name", c_weight |-> "weight", c_nlev |-> "nlev", c_levels |-> "levels",
     c_nlin |-> "nlin", c_trans |-> "trans", c_npart |-> "npart", c_pname |-> "pname",
     c_ncol |-> "ncol", c_ntemp |-> "ntemp", c_temps |-> "temps", c_rates |-> "rates"]

\* C6: there is a comment gate before every data line and every bounded block.
\* At each of the twelve comment positions a line whose trimmed text does not
\* start with `!` fails with WrongCommentFormat, that line and the comment
\* note; a line that starts with `!` is taken and leads to the data state of
\* that position; and a data state or block is entered from its gate only.
C6_CommentGate ==
    /\ (at \in DOMAIN AfterComment /\ got = "line") =>
            IF StartsWith(Trim(LastLine), "!")
            THEN result = NoError /\ pc = AfterComment[at]
            ELSE /\ result.kind = "WrongCommentFormat"
                 /\ result.line = LastLine
                 /\ result.note = CommentNote
                 /\ pc = "error"
    /\ \A c \in DOMAIN AfterComment :
            (pc = AfterComment[c] /\ at # pc) => (at = c /\ got = "line")

\* C6 witness: a line that is no comment at the gate before a partner's rates
C6_Witness ==
    /\ at = "c_rates"
    /\ got = "line"
    /\ ~StartsWith(Trim(LastLine), "!")
    /\ result.kind = "WrongCommentFormat"

\* C7: a declared count of zero is no error. The block of a zero count fetches
\* no line, leaves its sequence empty and goes on to the next grammar state
\* (for npart = 0 to the trailing comments); a document of the writer with
\* zero counts, and every well-formed text without partners, returns Ok.
C7_ZeroCounts ==
    /\ (at = "levels" /\ nlev = ToU32(0)) =>
            (got = "none" /\ energy_levels = <<>> /\ pc = "c_nlin" /\ result = NoError)
    /\ (at = "trans" /\ nlin = ToU32(0)) =>
            (got = "none" /\ radiative_transitions = <<>> /\ pc = "c_npart" /\ result = NoError)
    /\ (at = "rates" /\ ncol = ToU32(0)) =>
            /\ got = "none" /\ pc = "for" /\ result = NoError
            /\ collision_partners[Len(collision_partners)].rates = <<>>
    /\ (at = "for" /\ npart = ToU32(0)) =>
            (got = "none" /\ collision_partners = <<>> /\ pc = "trailing" /\ result = NoError)
    /\ (WellFormed /\ Returned /\ (npart = ToU32(0) \/ ~fault)) =>
            (result.kind = "Ok" /\ LengthsAsDeclared)

\* C7 witness: Ok for a document with no levels, no transitions and a partner
\* without collisional transitions
C7_Witness ==
    /\ result.kind = "Ok"
    /\ nlev = ToU32(0) /\ nlin = ToU32(0)
    /\ Len(collision_partners) = 1
    /\ ncols = <<ToU32(0)>>
    /\ result.doc.energy_levels = <<>>
    /\ result.doc.collision_partners[1].rates = <<>>

\* a code token that is an integer in 1..7
IsPartnerCode(tok) ==
    /\ ParseU32(tok).ok
    /\ ParseU32(tok).val.hi = 0
    /\ ParseU32(tok).val.lo >= 1
    /\ ParseU32(tok).val.lo <= 7

\* C8: a partner-name line whose code token is no integer in 1..7 fails with
\* UnknownCollisionPartner, that line and the note that lists the seven codes,
\* whatever follows the token.
C8_UnknownPartner ==
    (/\ at = "pname" /\ got = "line"
     /\ SplitWhitespace(LastLine) # <<>>
     /\ ~IsPartnerCode(SplitWhitespace(LastLine)[1])) =>
        /\ result.kind = "UnknownCollisionPartner"
        /\ result.line = LastLine
        /\ result.note = PartnerNote
        /\ pc = "error"

\* C8 witness: the code 8 followed by text
C8_Witness ==
    /\ at = "pname" /\ got = "line"
    /\ LastLine = <<"8", " ", "i">>
    /\ result.kind = "UnknownCollisionPartner"

\* the text after the first whitespace-delimited token of the trimmed line
AfterFirstToken(l) ==
    SubStr(Trim(l), Len(SplitWhitespace(l)[1]) + 1, Len(Trim(l)))

\* C9: a partner-name line whose code token is an integer in 1..7, followed by
\* the end of the line or by whitespace and anything, parses to the identity of
\* the code and the trailing text trimmed of marker and whitespace, whatever
\* whitespace surrounds the line.
C9_PartnerLineParses ==
    (at = "pname" /\ got = "line" /\ IsPartnerLine(LastLine)) =>
        /\ result = NoError
        /\ cp_name = CollisionPartnerId[ParseU32(SplitWhitespace(LastLine)[1]).val.lo]
        /\ cp_information = TrimMatches(AfterFirstToken(LastLine), {" ", "\t", "!", "\n"})

\* the typed prefix of each record kind, and the names of its fields
RecordPrefix ==
    [levels |-> <<"Integer", "Float", "Float">>,
     trans |-> <<"Integer", "Integer", "Integer", "Float">>,
     rates |-> <<"Integer", "Integer", "Integer">>]

RecordFieldNames ==
    [levels |-> <<"level", "energy [cm-1]", "statistical weight">>,
     trans |-> <<"transition", "upper level", "lower level", "spontaneous decay rate [s-1]">>,
     rates |-> <<"transition", "upper level", "lower level">>]

ParsesAs(kind, tok) == IF kind = "Integer" THEN ParseU32(tok).ok ELSE ParseF64(tok).ok

KindName(kind) == IF kind = "Integer" THEN "integer" ELSE "floating point number"

\* the record line fetched last has fewer tokens than its typed prefix, all of
\* them of their kinds
ShortRecordLine ==
    /\ at \in DOMAIN RecordPrefix /\ got = "line"
    /\ Len(SplitWhitespace(LastLine)) < Len(RecordPrefix[at])
    /\ \A k \in 1..Len(SplitWhitespace(LastLine)) :
            ParsesAs(RecordPrefix[at][k], SplitWhitespace(LastLine)[k])

\* C10: a record line with fewer tokens than its typed prefix, all of their
\* kinds, fails with MissingField for the first absent field, with the line and
\* the note that names the field and its kind.
C10_MissingField ==
    ShortRecordLine =>
        /\ result.kind = "MissingField"
        /\ result.line = LastLine
        /\ result.note =
             [fmt |-> "Missing field '{}' with value of {} type",
              args |-> <<RecordFieldNames[at][Len(SplitWhitespace(LastLine)) + 1],
                         KindName(RecordPrefix[at][Len(SplitWhitespace(LastLine)) + 1])>>]
        /\ pc = "error"

\* C10 witness: a level line of two tokens reports the statistical weight
C10_Witness ==
    /\ at = "levels" /\ got = "line"
    /\ LastLine = <<"1", " ", "2">>
    /\ result.kind = "MissingField"
    /\ result.note.args = <<"statistical weight", "floating point number">>

\* the kind and the name of the field at position k of a record line: the
\* typed prefix, and after it the rate coefficients of a rates line
FieldKindAt(state, k) ==
    IF k <= Len(RecordPrefix[state]) THEN RecordPrefix[state][k]
    ELSE IF state = "rates" THEN "Float" ELSE "Text"

FieldNameAt(state, k) ==
    IF k <= Len(RecordPrefix[state]) THEN RecordFieldNames[state][k]
    ELSE "rate coefficients [cm3 s-1]"

\* the positions of a record line whose field is missing or malformed
FieldProblems(state, toks) ==
    {k \in 1..Len(toks) : FieldKindAt(state, k) # "Text" /\ ~ParsesAs(FieldKindAt(state, k), toks[k])}
    \cup {k \in 1..Len(RecordPrefix[state]) : k > Len(toks)}

\* the 0-based offsets at which the literal tok occurs in the line l
Occurrences(l, tok) ==
    {i \in 0..(Len(l) - Len(tok)) : \A j \in 1..Len(tok) : l[i + j] = tok[j]}

\* the UnknownItem error for the token tok at position k of the line l
BadFieldReported(state, l, k, tok) ==
    /\ result.kind = "UnknownItem"
    /\ result.line = l
    /\ result.value_width = Len(tok)
    /\ result.column = Min(Occurrences(l, tok))
    /\ result.note =
            [fmt |-> "Value '{}' from field '{}' has wrong type (should be {})",
             args |-> <<tok, FieldNameAt(state, k), KindName(FieldKindAt(state, k))>>]

\* what from_str makes of a record line with the tokens toks and the set
\* `problems` of positions that are missing or malformed
RecordLineOutcome(state, l, toks, problems) ==
    IF problems = {} THEN result = NoError
    ELSE IF Min(problems) > Len(toks) THEN result.kind = "MissingField"
    ELSE BadFieldReported(state, l, Min(problems), toks[Min(problems)])

\* C11: the fields of a record line are checked left to right and the error is
\* for the lowest position that is missing or malformed. A token that does not
\* parse as its kind gives UnknownItem with that line, value_width the length
\* of the token, column the offset of the first occurrence of the token in the
\* line and a note naming the token, the field and the kind; a line without
\* such a position is taken.
C11_FirstBadField ==
    (at \in DOMAIN RecordPrefix /\ got = "line") =>
        RecordLineOutcome(at, LastLine, SplitWhitespace(LastLine),
                          FieldProblems(at, SplitWhitespace(LastLine)))

\* C11 witness: a rates line whose fourth token is no float, at offset 6
C11_Witness ==
    /\ at = "rates" /\ got = "line"
    /\ LastLine = <<"1", " ", "2", " ", "1", " ", "x">>
    /\ result.kind = "UnknownItem"
    /\ result.column = 6
    /\ result.value_width = 1

\* the error of a Display call that has returned is of kind k
Rendered(k) == pc = "returned" /\ arg.fn = "ParseError::fmt" /\ arg.e.kind = k

\* the offset in the characters l at which the line text starts on the first
\* output line: after the gutter and " | "
TextStart == linenum_width + 3

\* the 0-based offsets of the carets of l
Carets(l) == {i \in 0..(Len(l) - 1) : l[i + 1] = "^"}

\* the carets of l are one run of `width` carets that starts `offset`
\* characters after the start of the line text
CaretRun(l, offset, width) == Carets(l) = (TextStart + offset)..(TextStart + offset + width - 1)

\* the line text follows the gutter and " | " on the first output line
TextAfterGutter(l1, text) ==
    /\ Len(l1) = TextStart + Len(text) + 1
    /\ SubStr(l1, linenum_width + 1, TextStart) = <<" ", "|", " ">>
    /\ SubStr(l1, TextStart + 1, TextStart + Len(text)) = text

\* C12: in the rendering of an UnknownItem error with column >= 0 and
\* value_width >= 1 the carets of the second line are one run of exactly
\* value_width carets that starts exactly `column` characters after the place
\* where the line text starts on the first line, column 0 included.
C12_CaretAtColumn ==
    Rendered("UnknownItem") =>
        /\ TextAfterGutter(out.l1, ReplaceTabs(arg.e.line))
        /\ CaretRun(out.l2, arg.e.column, arg.e.value_width)

\* whitespace put before the marker or after the text of a comment line
Pads == { <<>>, <<" ">>, <<"\t">>, <<" ", "\t">>, <<"\t", " ", " ">> }

\* the characters a comment text neither starts nor ends with
MarkerOrWhitespace == {" ", "\t", "!"}

Returned_Comment == pc = "returned" /\ arg.fn = "Comment::from_str"

\* C13: Comment::from_str of a comment line returns its text with the marker
\* and all surrounding whitespace removed from both ends; whitespace (spaces or
\* tabs) added before the marker or after the text does not change the result,
\* the result neither starts nor ends with whitespace or `!`, and parsing the
\* result again returns it unchanged.
C13_CommentTrimmed ==
    Returned_Comment =>
        /\ out = TrimMatches(arg.s, MarkerOrWhitespace)
        /\ \A a \in Pads, b \in Pads : Comment_from_str(a \o arg.s \o b) = out
        /\ out # <<>> => (out[1] \notin MarkerOrWhitespace /\ out[Len(out)] \notin MarkerOrWhitespace)
        /\ Comment_from_str(out) = out

Returned_Name == pc = "returned" /\ arg.fn = "ElementName::from_str"

\* the positions of the whitespace characters of t
WhitespaceAt(t) == {i \in 1..Len(t) : IsWhitespace(t[i])}

\* C14: ElementName::from_str never fails; the name is the part of the trimmed
\* line before its first whitespace character and the information is the rest
\* with marker and whitespace trimmed from both ends; a trimmed line without
\* whitespace is the name as a whole, and the information is empty.
C14_NameLine ==
    Returned_Name =>
        IF WhitespaceAt(Trim(arg.s)) = {}
        THEN out = [name |-> Trim(arg.s), information |-> <<>>]
        ELSE /\ out.name = SubStr(Trim(arg.s), 1, Min(WhitespaceAt(Trim(arg.s))) - 1)
             /\ out.information =
                    TrimMatches(SubStr(Trim(arg.s), Min(WhitespaceAt(Trim(arg.s))) + 1,
                                       Len(Trim(arg.s))),
                                MarkerOrWhitespace)

\* the five count states and the variable each count is kept in
CountStates == {"nlev", "nlin", "npart", "ncol", "ntemp"}

CountRead(state) ==
    CASE state = "nlev" -> nlev [] state = "nlin" -> nlin [] state = "npart" -> npart
      [] state = "ncol" -> ncol [] state = "ntemp" -> ntemp

\* C15: a count line is trimmed and parsed as a non-negative integer, the
\* weight line is trimmed and parsed as a float. On success the value is kept
\* whatever whitespace surrounds it; on failure from_str returns NotInt with
\* the note "Expected integer", respectively NotFloat with the note "Expected
\* floating point number", with the number of that line and its raw text, and
\* reads no further line.
C15_CountAndWeightLines ==
    /\ (at \in CountStates /\ got = "line") =>
            IF ParseU32(Trim(LastLine)).ok
            THEN /\ result.kind # "NotInt"
                 /\ result = NoError => CountRead(at) = ParseU32(Trim(LastLine)).val
            ELSE /\ result = NotInt(Len(input), LastLine, IntNote)
                 /\ pc = "error"
    /\ (at = "weight" /\ got = "line") =>
            IF ParseF64(Trim(LastLine)).ok
            THEN result = NoError /\ weight = ParseF64(Trim(LastLine)).val
            ELSE /\ result = NotFloat(Len(input), LastLine, FloatNote)
                 /\ pc = "error"

\* C16: the trailing-comments phase begins after the last partner block (right
\* after the partner count when npart = 0) and looks at every remaining line in
\* order: a blank or whitespace-only line is skipped, a line that passes the
\* comment gate is taken, and the first other line fails with
\* WrongCommentFormat, that line and a note with the number of collision
\* partners read; Ok is returned only when there was no such line.
C16_TrailingPhase ==
    /\ (pc = "trailing" /\ at # "trailing") =>
            (at = "for" /\ ToU32(Len(collision_partners)) = npart)
    /\ (at = "trailing" /\ got = "line") =>
            IF IsBlankLine(LastLine) \/ IsCommentLine(LastLine)
            THEN result = NoError /\ pc = "trailing"
            ELSE /\ result.kind = "WrongCommentFormat"
                 /\ result.line = LastLine
                 /\ result.note =
                        [fmt |-> "{} collision partners were read, only comments with additional information should be left",
                         args |-> <<ToU32(Len(collision_partners))>>]
                 /\ pc = "error"
    /\ result.kind = "Ok" =>
            \A k \in 1..Len(input) :
                ats[k] = "trailing" => (IsBlankLine(input[k]) \/ IsCommentLine(input[k]))

\* the characters l end with a newline and hold no other one
NewlineTerminated(l) == Len(l) >= 1 /\ {i \in 1..Len(l) : l[i] = "\n"} = {Len(l)}

\* the first linenum_width characters of l are the number n, right-aligned
NumberInGutter(l, n) ==
    /\ Len(DecDigits(n)) <= linenum_width
    /\ Len(l) >= linenum_width
    /\ SubStr(l, linenum_width - Len(DecDigits(n)) + 1, linenum_width) = DecDigits(n)
    /\ \A i \in 1..(linenum_width - Len(DecDigits(n))) : l[i] = " "

\* the text l with a space in the place of every tab
TabsAsSpaces(l) == [i \in 1..Len(l) |-> IF l[i] = "\t" THEN " " ELSE l[i]]

\* C17: the rendering of every error kind that carries a line is three
\* newline-terminated lines with a gutter of 6 characters: the first is the
\* line_number right-aligned in 6 columns, " | " and the offending line with a
\* single space for every tab; the third is a blank gutter and "= <note>.".
C17_ThreeLines ==
    (pc = "returned" /\ arg.fn = "ParseError::fmt" /\ arg.e.kind \in LineErrorKinds) =>
        /\ NewlineTerminated(out.l1)
        /\ NumberInGutter(out.l1, arg.e.line_number)
        /\ TextAfterGutter(out.l1, TabsAsSpaces(arg.e.line))
        /\ NewlineTerminated(out.l2)
        /\ \A i \in 1..linenum_width : out.l2[i] = " "
        /\ Len(out.l3.pre) >= linenum_width + 2
        /\ SubStr(out.l3.pre, Len(out.l3.pre) - 1, Len(out.l3.pre)) = <<"=", " ">>
        /\ \A i \in 1..(Len(out.l3.pre) - 2) : out.l3.pre[i] = " "
        /\ out.l3.note = arg.e.note
        /\ out.l3.post = <<".", "\n">>

\* every token of the line l is a float
AllFloats(l) == \A k \in 1..Len(SplitWhitespace(l)) : ParseF64(SplitWhitespace(l)[k]).ok

\* a record line without a missing or malformed field was fetched in `state`
GoodRecordLine(state) ==
    at = state /\ got = "line" /\ FieldProblems(state, SplitWhitespace(LastLine)) = {}

\* the rates row kept last has the indices and the rates of the tokens toks
RatesRowKept(row, toks) ==
    /\ Len(row.rates) = Len(toks) - 3
    /\ row.up = ParseU32(toks[2]).val
    /\ row.low = ParseU32(toks[3]).val

\* the transition kept last has the level indices of the tokens toks
TransitionKept(tr, toks) == tr.up = ParseU32(toks[2]).val /\ tr.low = ParseU32(toks[3]).val

\* C18: what from_str returns does not depend on the value of a partner's
\* temperature-count line that parses as an integer. Every such value is taken;
\* the temperatures line after it is decided by its tokens alone and may hold
\* any number of floats; a rates line is decided by its tokens alone and may
\* hold any number of rates; the level and transition indices of a record are
\* kept as written, whatever the declared counts; and the document returned
\* holds nothing of the temperature count.
C18_TempCountUnused ==
    /\ (at = "ntemp" /\ got = "line" /\ ParseU32(Trim(LastLine)).ok) =>
            (result = NoError /\ pc = "c_temps")
    /\ (at = "temps" /\ got = "line") =>
            IF AllFloats(LastLine)
            THEN /\ result = NoError /\ pc = "c_rates"
                 /\ Len(temperatures) = Len(SplitWhitespace(LastLine))
            ELSE result.kind = "UnknownItem"
    /\ GoodRecordLine("rates") =>
            (result = NoError /\ RatesRowKept(rates[Len(rates)], SplitWhitespace(LastLine)))
    /\ GoodRecordLine("trans") =>
            /\ result = NoError
            /\ TransitionKept(radiative_transitions[Len(radiative_transitions)],
                              SplitWhitespace(LastLine))
    /\ GoodRecordLine("levels") =>
            /\ result = NoError
            /\ energy_levels[Len(energy_levels)].level = ParseU32(SplitWhitespace(LastLine)[1]).val
    /\ result.kind = "Ok" =>
            /\ DOMAIN result.doc = {"name", "information", "weight", "energy_levels",
                                    "radiative_transitions", "collision_partners"}
            /\ \A k \in 1..Len(result.doc.collision_partners) :
                    DOMAIN result.doc.collision_partners[k] =
                        {"name", "information", "temperatures", "rates"}

\* C18 witness: Ok for a text whose last partner declares a number of
\* temperatures that is neither the number of temperatures nor the length of
\* its rate row, and whose transition names a level above the declared count
C18_Witness ==
    /\ result.kind = "Ok"
    /\ Len(result.doc.collision_partners) >= 1
    /\ Len(result.doc.radiative_transitions) >= 1
    /\ U32Lt(nlev, result.doc.radiative_transitions[1].up)
    /\ LET p == result.doc.collision_partners[Len(result.doc.collision_partners)] IN
          /\ ntemp # ToU32(Len(p.temperatures))
          /\ Len(p.rates) >= 1
          /\ ntemp # ToU32(Len(p.rates[1].rates))

\* the trailing information of the name line l: what follows the first
\* whitespace of the trimmed line, trimmed of marker and whitespace
NameInformation(l) ==
    IF WhitespaceAt(Trim(l)) = {} THEN <<>>
    ELSE TrimMatches(SubStr(Trim(l), Min(WhitespaceAt(Trim(l))) + 1, Len(Trim(l))),
                     MarkerOrWhitespace)

\* the trimmed comment text of the non-blank trailing lines among the first k
\* lines of input, in order, each followed by one space
RECURSIVE TrailingText(_)
TrailingText(k) ==
    IF k = 0 THEN <<>>
    ELSE IF ats[k] = "trailing" /\ ~IsBlankLine(input[k])
    THEN TrailingText(k - 1) \o TrimMatches(input[k], MarkerOrWhitespace) \o <<" ">>
    ELSE TrailingText(k - 1)

\* C19: on success the information of the document is the trailing
\* information of the name line, then ". ", then the trimmed comment text of
\* every non-blank trailing line in order, each followed by one space; blank
\* trailing lines and the comments before the trailing phase add nothing.
C19_Information ==
    result.kind = "Ok" =>
        result.doc.information =
            NameInformation(input[2]) \o <<".", " ">> \o TrailingText(Len(input))

\* the 0-based offsets of the alphanumeric characters of l
AlphanumericAt(l) == {i \in 0..(Len(l) - 1) : IsAlphanumeric(l[i + 1])}

\* C20: in the rendering of an UnknownCollisionPartner error whose line holds
\* an alphanumeric character, the carets of the second line are one run that
\* starts at the offset of the first alphanumeric character of the line,
\* counted from the place where the line text starts on the first line (offset
\* 0 included), and that is as wide as the first whitespace-delimited token.
C20_PartnerCaret ==
    (Rendered("UnknownCollisionPartner") /\ AlphanumericAt(arg.e.line) # {}) =>
        /\ TextAfterGutter(out.l1, arg.e.line)
        /\ CaretRun(out.l2, Min(AlphanumericAt(arg.e.line)), Len(SplitWhitespace(arg.e.line)[1]))

\* the positions of the tokens toks that are no floats
NotFloats(toks) == {k \in 1..Len(toks) : ~ParseF64(toks[k]).ok}

\* what from_str makes of a temperatures line l with the tokens toks, `bad`
\* being the positions of the tokens that are no floats
TemperaturesOutcome(l, toks, bad) ==
    IF bad = {}
    THEN /\ result = NoError
         /\ pc = "c_rates"
         /\ temperatures = [k \in 1..Len(toks) |-> ParseF64(toks[k]).val]
    ELSE /\ pc = "error"
         /\ result.kind = "UnknownItem"
         /\ result.line = l
         /\ result.value_width = Len(toks[Min(bad)])
         /\ result.column = Min(Occurrences(l, toks[Min(bad)]))
         /\ result.note =
                [fmt |-> "Value '{}' has wrong type (should be floating point number)",
                 args |-> <<toks[Min(bad)]>>]

\* C21: the temperatures line is split on whitespace and every token is parsed
\* as a float in order. If all tokens parse, the partner's temperatures are
\* those values in line order (none for an empty or blank line); otherwise
\* from_str fails with UnknownItem for the first token that is no float, with
\* value_width the length of that token, column the offset of the first
\* occurrence of its literal in the line and a note naming the literal.
C21_TemperaturesLine ==
    (at = "temps" /\ got = "line") =>
        TemperaturesOutcome(LastLine, SplitWhitespace(LastLine), NotFloats(SplitWhitespace(LastLine)))

\* C21 witness: a temperatures line of two tokens, both no floats, fails for the
\* first one
C21_Witness ==
    /\ at = "temps" /\ got = "line"
    /\ LastLine = <<"O", " ", "!", "n">>
    /\ result.kind = "UnknownItem"
    /\ result.note.args = << <<"O">> >>
    /\ result.column = 0

\* the tokens ts[i..] joined by single spaces
RECURSIVE JoinSpaces(_, _)
JoinSpaces(ts, i) ==
    IF i > Len(ts) THEN <<>>
    ELSE IF i = Len(ts) THEN ts[i]
    ELSE ts[i] \o <<" ">> \o JoinSpaces(ts, i + 1)

\* the marker, quote and space characters
MarkerQuoteSpace == {" ", "!", "'"}

\* the free-text tail of the tokens toks[i..]
FreeTextTail(toks, i) == TrimMatches(JoinSpaces(toks, i), MarkerQuoteSpace)

\* the typed prefix of the record kind `state` is there and parses
PrefixParses(state, toks) ==
    /\ Len(toks) >= Len(RecordPrefix[state])
    /\ \A k \in 1..Len(RecordPrefix[state]) : ParsesAs(RecordPrefix[state][k], toks[k])

\* the whitespace put between two tokens
Separators == { <<" ">>, <<" ", " ", " ">>, <<"\t">>, <<" ", "\t", " ">> }

\* the tokens toks with sep between each two of them
RECURSIVE JoinWith(_, _)
JoinWith(toks, sep) ==
    IF Len(toks) = 0 THEN <<>>
    ELSE IF Len(toks) = 1 THEN toks[1]
    ELSE toks[1] \o sep \o JoinWith(Tail(toks), sep)

\* the lines that hold the tokens toks with other whitespace around them
Respacings(toks) == {a \o JoinWith(toks, sep) \o b : a \in Pads, b \in Pads, sep \in Separators}

Returned_From(fn) == pc = "returned" /\ arg.fn = fn

LevelMapped(toks) ==
    /\ out.ok
    /\ out.val = [level |-> ParseU32(toks[1]).val, energy |-> ParseF64(toks[2]).val,
                  stat_weight |-> ParseF64(toks[3]).val, qnums |-> FreeTextTail(toks, 4)]
    /\ \A l \in Respacings(toks) : EnergyLevel_from_str(l) = out

TransitionMapped(toks) ==
    /\ out.ok
    /\ out.val = [transition |-> ParseU32(toks[1]).val, up |-> ParseU32(toks[2]).val,
                  low |-> ParseU32(toks[3]).val, aeinst |-> ParseF64(toks[4]).val,
                  extra |-> FreeTextTail(toks, 5)]
    /\ \A l \in Respacings(toks) : RadiativeTransition_from_str(l) = out

RatesMapped(toks) ==
    /\ IF \A k \in 4..Len(toks) : ParseF64(toks[k]).ok
       THEN /\ out.ok
            /\ out.val = [transition |-> ParseU32(toks[1]).val, up |-> ParseU32(toks[2]).val,
                          low |-> ParseU32(toks[3]).val,
                          rates |-> [k \in 1..(Len(toks) - 3) |-> ParseF64(toks[k + 3]).val]]
       ELSE ~out.ok
    /\ \A l \in Respacings(toks) : CollisionalRates_from_str(l) = out

\* C22: a record line whose typed prefix parses is mapped by position. The
\* typed fields are the values of the first tokens in order (level: integer,
\* float, float; transition: three integers, float; rate row: three integers);
\* the remaining tokens are, for a level and a transition, the free-text tail:
\* those tokens joined by single spaces, with marker, quote and space
\* characters trimmed from both ends; for a rate row they are the list of
\* their float values in order. The whitespace between and around the tokens
\* does not change the result.
C22_PositionalMapping ==
    /\ (Returned_From("EnergyLevel::from_str") /\ PrefixParses("levels", SplitWhitespace(arg.s))) =>
            LevelMapped(SplitWhitespace(arg.s))
    /\ (Returned_From("RadiativeTransition::from_str")
            /\ PrefixParses("trans", SplitWhitespace(arg.s))) =>
            TransitionMapped(SplitWhitespace(arg.s))
    /\ (Returned_From("CollisionalRates::from_str") /\ PrefixParses("rates", SplitWhitespace(arg.s))) =>
            RatesMapped(SplitWhitespace(arg.s))

\* C22 witness: the line of tests::parse_energy_level, whose tail is "3 5 6"
C22_Witness ==
    /\ Returned_From("EnergyLevel::from_str")
    /\ arg.s = <<" ", " ", " ", "3", "2", " ", " ", "3", "2", ".", "4", " ", " ", " ", " ", "1", "e", "-", "1", "2", " ", " ", " ", "!", " ", "'", " ", "3", " ", "5", " ", "6", "'">>
    /\ out.ok
    /\ out.val.level = ToU32(32)
    /\ out.val.qnums = <<"3", " ", "5", " ", "6">>

\* the line_number an error on the last line of the text read carries: the
\* index enumerate() gives that line
LastLineNumber == Len(input) - 1

\* C23: for a text that is not empty, NotEnoughInput carries exactly one more
\* than the line_number an error on the last line of the text carries, also
\* when the lines read last were the records of a bounded block: the number is
\* above the number of every line that was read.
C23_NotEnoughInputCountsBlocks ==
    (result.kind = "NotEnoughInput" /\ Len(input) >= 1) =>
        /\ result.line_number = LastLineNumber + 1
        /\ \A k \in 1..Len(input) : result.line_number > k - 1

\* the 0-based offsets at which the whitespace-delimited tokens of l start
TokenStarts(l) == {i \in 0..(Len(l) - 1) : ~IsWhitespace(l[i + 1]) /\ (i = 0 \/ IsWhitespace(l[i]))}

\* the k-th smallest element of S
RECURSIVE Nth(_, _)
Nth(S, k) == IF k = 1 THEN Min(S) ELSE Nth(S \ {Min(S)}, k - 1)

\* the position of the token from_str fails for, on a line fetched in `state`
\* with the tokens toks
FailingPosition(state, toks) ==
    IF state = "temps" THEN Min(NotFloats(toks)) ELSE Min(FieldProblems(state, toks))

\* the span of the error is the token at position k of the line l
SpanIsToken(l, toks, k) ==
    /\ result.column = Nth(TokenStarts(l), k)
    /\ result.value_width = Len(toks[k])
    /\ SubStr(l, result.column + 1, result.column + result.value_width) = toks[k]

\* C24: whenever from_str returns UnknownItem, the span [column, column +
\* value_width) of the carried line is the position of the token that failed
\* to parse: the token at the failing field position, not an earlier
\* occurrence of the same characters inside a token before it.
C24_SpanIsFailingToken ==
    result.kind = "UnknownItem" =>
        /\ got = "line"
        /\ result.line = LastLine
        /\ SpanIsToken(LastLine, SplitWhitespace(LastLine),
                       FailingPosition(at, SplitWhitespace(LastLine)))

\* C25: for every partner count the count line declares, u32::MAX included,
\* the bound npart + 1 of the partner loop is computed without overflow and the
\* loop attempts exactly npart partner blocks: the count line is taken without
\* a panic or an abort, the loop starts another block while fewer than npart
\* were pushed and ends only after npart blocks, so Ok comes with npart
\* partners and a text that ends with the count line 4294967295 fails with
\* NotEnoughInput.
C25_PartnerLoopBound ==
    /\ result.kind \notin {"Panic", "Abort"}
    /\ (at = "npart" /\ got = "line" /\ ParseU32(Trim(LastLine)).ok) =>
            /\ result = NoError
            /\ pc = "for"
            /\ npart = ParseU32(Trim(LastLine)).val
            /\ U32Lt(npart, range_end)
    /\ (at = "for" /\ pc = "c_pname") => U32Lt(ToU32(Len(collision_partners)), npart)
    /\ (at = "for" /\ pc = "trailing") => ToU32(Len(collision_partners)) = npart
    /\ result.kind = "Ok" => ToU32(Len(collision_partners)) = npart
    /\ (Returned /\ npart = U32Max /\ ats[Len(input)] = "npart") => result.kind = "NotEnoughInput"

BlockStates == {"levels", "trans", "rates"}

\* from_str has failed with an error of kind k that carries the line fetched last
FailedWith(k) == pc = "error" /\ result.kind = k /\ result.line = LastLine

\* what from_str makes of a blank line fetched in `state`
BlankLineOutcome(state) ==
    CASE state \in WriterComments -> FailedWith("WrongCommentFormat")
      [] state \in CountStates -> FailedWith("NotInt")
      [] state = "weight" -> FailedWith("NotFloat")
      [] state = "pname" -> FailedWith("UnknownCollisionPartner")
      [] state \in BlockStates ->
            /\ FailedWith("MissingField")
            /\ result.note = [fmt |-> "Missing field '{}' with value of {} type",
                              args |-> <<RecordFieldNames[state][1], "integer">>]
      [] state = "name" -> result = NoError /\ pc = "c_weight"
      [] state = "temps" -> result = NoError /\ pc = "c_rates" /\ temperatures = <<>>

\* C26: before the trailing-comments phase a blank or whitespace-only line is
\* never skipped and takes one grammar position: at a comment position it
\* fails with WrongCommentFormat, at a count position with NotInt, at the
\* weight position with NotFloat, at the partner-name position with
\* UnknownCollisionPartner, and inside a bounded block it is taken as one of
\* the records and fails with MissingField for the first field (at the name
\* and the temperatures position it is the name, respectively the empty list,
\* and the parse goes on with the next position). A `!` comment line inside a
\* bounded block is taken as a record as well: it fails for its first field and
\* does not end the block.
C26_BlankLines ==
    /\ (got = "line" /\ at # "trailing" /\ IsBlankLine(LastLine)) => BlankLineOutcome(at)
    /\ (got = "line" /\ at \in BlockStates /\ IsCommentLine(LastLine)) =>
            /\ FailedWith("UnknownItem")
            /\ result.note.args[1] = SplitWhitespace(LastLine)[1]
            /\ result.note.args[2] = RecordFieldNames[at][1]

\* C26 witness: a whitespace-only line in a partner's rates block
C26_Witness ==
    /\ at = "rates" /\ got = "line"
    /\ LastLine = <<" ">>
    /\ result.kind = "MissingField"
    /\ result.note.args = <<"transition", "integer">>

====
